---- MODULE Spec2Model ----
(***************************************************************************)
(* Complaints Tracker: the hash-chained audit trail of a complaint's       *)
(* history (appendHistory, verifyHistoryChain, the load-time backfill of   *)
(* Data.init) and the redaction pass (maskText, redactComplaintDeep).      *)
(*                                                                         *)
(* Text is modelled by TLA+ strings, joined with \o as the template        *)
(* literals of the source join them.                                       *)
(***************************************************************************)
EXTENDS Integers, Sequences, FiniteSets, TLC

VARIABLES
    history,     \* complaint.history of the complaint in memory
    stored,      \* the history as last read from, or saved to, localStorage
    pending,     \* appendHistory calls suspended at `await sha256Hex(...)`
    today,       \* index in Dates of what new Date() returns
    nCalls,      \* number of appendHistory calls started so far
    overlapped,  \* some appendHistory call started while another was pending
    pc,          \* "boot", "backfilled", "ready", or a SpecTamper phase
    lastPush,    \* the call whose entry was pushed last, with the history before
    tamper,      \* the edit made to the stored chain (SpecTamper)
    auditOk,     \* auditOk of showComplaintDetails, once pc = "t_verified"
    heap,        \* the objects and arrays in memory, by address (SpecRedact)
    shape,       \* what the complaint in the heap was built from
    result,      \* address of the object redactComplaintDeep returned, or 0
    rpc,         \* "idle", "start", "redacted" or "written"
    dialog,      \* the checkboxes of the Redaction Controls (SpecControls)
    mtext,       \* the text maskText is first called on (SpecMask)
    mouts,       \* what the calls of maskText so far returned, in order
    session,     \* Data.session.user.username, or "public" (SpecUsers)
    memory,      \* Data.complaints
    ls,          \* localStorage: the complaints item of each namespace
    created,     \* number of complaints created through the add form
    acc,         \* Data.accountability
    lsacc,       \* localStorage: the accountability item of each namespace
    status,      \* complaint.status (SpecUI)
    cases,       \* which of Data.phsoCases, Data.legalCases hold the complaint
    concerns,    \* number of concerns of the complaint
    digestWorks, \* crypto.subtle.digest resolves, rather than fails (SpecCalls)
    outcome      \* what the one call of SpecCalls did, once pc = "c_done"

chainVars == <<history, stored, pending, today, nCalls, overlapped, pc,
               lastPush, tamper, auditOk>>

redactVars == <<heap, shape, result, rpc, dialog>>

maskVars == <<mtext, mouts>>

\* the variables of the specifications other than Spec, SpecTamper and
\* SpecRedact
userVars == <<session, memory, ls, created, acc, lsacc>>

uiVars == <<status, cases, concerns>>

callVars == <<digestWorks, outcome>>

extVars == <<maskVars, userVars, uiVars, callVars>>

vars == <<chainVars, redactVars, extVars>>

-----------------------------------------------------------------------------
(* Bounds *)

\* longest history read from localStorage
MaxStored == 2
\* longest history read by a reload after the page has loaded
MaxReload == 1
\* number of appendHistory calls in one run
MaxCalls == 3

\* most concerns of the complaint that is redacted
MaxConcerns == 2

\* what new Date().toISOString().slice(0, 10) can return, in time order
Dates == <<"2025-01-10", "2025-01-11">>
\* event texts; one holds the separator of the digest input
Events == {"Complaint created", "a|b"}
\* dates and events an edit of the stored data can put in an entry
TamperDates == {Dates[1], Dates[2], "2025-01-10|a"}
TamperEvents == Events \cup {"b", "a|b|b"}

\* a history entry that has no hash property (h.hash is undefined)
NoHash == "(undefined)"
\* a hash that was stored but is no digest
StaleHash == "00ff"

-----------------------------------------------------------------------------
(* sha256Hex: the digest is taken as collision-free. It is modelled by an    *)
(* injective function of its input whose value is never the empty string,    *)
(* never NoHash or StaleHash, and is delimited so that it cannot be confused *)
(* with date or event text (which hold no angle brackets).                   *)
sha256Hex(input) == "<" \o input \o ">"

HashInputNoDate(prev, date, event) == prev \o "|" \o event

HashInputNoPrev(prev, date, event) == "|" \o date \o "|" \o event

\* the template literal `${prev}|${date}|${event}`
HashInput(prev, date, event) == prev \o "|" \o date \o "|" \o event

Entry(date, event, hash) == [date |-> date, event |-> event, hash |-> hash]

\* h.hash || "" : undefined and "" are falsy
OrEmpty(hash) == IF hash \in {NoHash, ""} THEN "" ELSE hash

PrevHashAlwaysEmpty(hist) == ""

\* appendHistory, the read of prevHash
PrevHash(hist) ==
    IF Len(hist) > 0 THEN OrEmpty(hist[Len(hist)].hash) ELSE ""

PushEntryFront(hist, e) == <<e>> \o hist

\* appendHistory, after the await: complaint.history.push({date, event, hash})
PushEntry(hist, e) == Append(hist, e)

RECURSIVE VerifyFrom(_, _, _)
VerifyFrom(hist, i, prev) ==
    IF i > Len(hist) THEN TRUE
    ELSE LET h == hist[i]
             expected == sha256Hex(HashInput(prev, h.date, h.event))
         IN  IF h.hash # expected THEN FALSE
             ELSE VerifyFrom(hist, i + 1, h.hash)

\* a check of the last entry against the one before it, and of no other
VerifyLastOnly(hist) ==
    \/ hist = <<>>
    \/ LET n == Len(hist)
           prev == IF n = 1 THEN "" ELSE OrEmpty(hist[n - 1].hash)
       IN  hist[n].hash = sha256Hex(HashInput(prev, hist[n].date, hist[n].event))

\* verifyHistoryChain(complaint), on complaint.history || []
verifyHistoryChain(hist) == VerifyFrom(hist, 1, "")

RECURSIVE BackfillFrom(_, _, _)
BackfillFrom(hist, i, prev) ==
    IF i > Len(hist) THEN hist
    ELSE LET h == hist[i]
             expected == sha256Hex(HashInput(prev, h.date, h.event))
             hash == IF h.hash \in {NoHash, ""} \/ h.hash # expected
                     THEN expected ELSE h.hash
         IN  BackfillFrom([hist EXCEPT ![i].hash = hash], i + 1, hash)

RECURSIVE BackfillMissingOnly(_)
BackfillMissingOnly(hist) ==
    IF hist = <<>> THEN <<>>
    ELSE LET n == Len(hist)
             front == BackfillMissingOnly(SubSeq(hist, 1, n - 1))
             prev == IF n = 1 THEN "" ELSE front[n - 1].hash
             h == hist[n]
         IN  Append(front,
                    IF h.hash \in {NoHash, ""}
                    THEN [h EXCEPT !.hash =
                            sha256Hex(HashInput(prev, h.date, h.event))]
                    ELSE h)

\* the walk with `prev = h.hash` taken before the entry is repaired
RECURSIVE BackfillFromOld(_, _, _)
BackfillFromOld(hist, i, prev) ==
    IF i > Len(hist) THEN hist
    ELSE LET h == hist[i]
             expected == sha256Hex(HashInput(prev, h.date, h.event))
             hash == IF h.hash \in {NoHash, ""} \/ h.hash # expected
                     THEN expected ELSE h.hash
         IN  BackfillFromOld([hist EXCEPT ![i].hash = hash], i + 1, h.hash)

BackfillPrevBeforeRepair(hist) == BackfillFromOld(hist, 1, "")

\* Data.init, the backfill walk over one complaint's history
Backfill(hist) == BackfillFrom(hist, 1, "")

-----------------------------------------------------------------------------
(* Histories that JSON.parse of localStorage can yield: every entry has a    *)
(* date and an event; its hash is the right digest, missing, or stale.       *)

HashKinds == {"ok", "missing", "stale"}

RECURSIVE BuildStored(_)
BuildStored(spec) ==
    IF spec = <<>> THEN <<>>
    ELSE LET n == Len(spec)
             front == BuildStored(SubSeq(spec, 1, n - 1))
             prev == IF n = 1 THEN "" ELSE front[n - 1].hash
             s == spec[n]
             hash == CASE s.kind = "ok" ->
                            sha256Hex(HashInput(OrEmpty(prev), s.date, s.event))
                       [] s.kind = "missing" -> NoHash
                       [] OTHER -> StaleHash
         IN  Append(front, Entry(s.date, s.event, hash))

DateSet == {Dates[i] : i \in 1..Len(Dates)}

StoredSpecs(n) ==
    [1..n -> [date : DateSet, event : Events, kind : HashKinds]]

StoredHistories ==
    UNION {{BuildStored(s) : s \in StoredSpecs(n)} : n \in 0..MaxStored}

ReloadHistories == {h \in StoredHistories : Len(h) <= MaxReload}

NoTamper == [kind |-> "none", idx |-> 0]

\* the Redaction Controls before they are opened
NoDialog == [title |-> FALSE, content |-> FALSE, instEmail |-> FALSE,
             boxes |-> <<>>]

\* the redaction pass is not running
RedactIdle ==
    /\ heap = <<>>
    /\ shape = <<>>
    /\ result = 0
    /\ rpc = "idle"
    /\ dialog = NoDialog

\* maskText is not being called on its own
MaskIdle ==
    /\ mtext = <<>>
    /\ mouts = <<>>

\* no user logs in or out
UsersIdle ==
    /\ session = "public"
    /\ memory = {}
    /\ ls = <<>>
    /\ created = 0
    /\ acc = {}
    /\ lsacc = <<>>

\* no complaint is shown
UiIdle ==
    /\ status = ""
    /\ cases = {}
    /\ concerns = 0

NoOutcome == [op |-> "none", result |-> "none", digests |-> 0]

\* no call is singled out
CallsIdle ==
    /\ digestWorks = TRUE
    /\ outcome = NoOutcome

ExtIdle == MaskIdle /\ UsersIdle /\ UiIdle /\ CallsIdle

NoPush == [n |-> 0]

-----------------------------------------------------------------------------
(* Redaction: text.                                                          *)
(* A text is a sequence of one-character strings. The four regular           *)
(* expressions of maskText are written as syntax trees and matched as a      *)
(* backtracking matcher matches them: Match yields the end positions of the  *)
(* matches that start at a position, in the order backtracking tries them    *)
(* (greedy quantifiers, alternatives left to right), and the first one is    *)
(* the match that String.prototype.replace takes.                            *)

LowerSeq == <<"a","b","c","d","e","f","g","h","i","j","k","l","m",
              "n","o","p","q","r","s","t","u","v","w","x","y","z">>
UpperSeq == <<"A","B","C","D","E","F","G","H","I","J","K","L","M",
              "N","O","P","Q","R","S","T","U","V","W","X","Y","Z">>
Lower == {LowerSeq[i] : i \in 1..Len(LowerSeq)}
Upper == {UpperSeq[i] : i \in 1..Len(UpperSeq)}
Digit == {"0","1","2","3","4","5","6","7","8","9"}
\* \s, as far as the texts of the model go
Space == {" "}
\* \w
WordChar == Lower \cup Upper \cup Digit \cup {"_"}

\* the characters a letter matches under the i flag
CaseSet(ch) ==
    {ch} \cup {LowerSeq[i] : i \in {j \in 1..Len(UpperSeq) : UpperSeq[j] = ch}}
         \cup {UpperSeq[i] : i \in {j \in 1..Len(LowerSeq) : LowerSeq[j] = ch}}

Node(t, cs, rs, min, max) ==
    [t |-> t, cs |-> cs, rs |-> rs, min |-> min, max |-> max]
\* a character class
Cls(cs) == Node("set", cs, <<>>, 0, 0)
\* r1 r2 ...
Cat(rs) == Node("seq", {}, rs, 0, 0)
\* r1 | r2 | ...
Alt(rs) == Node("alt", {}, rs, 0, 0)
\* r{min,max}, greedy; max = -1 is no upper limit
Rep(r, min, max) == Node("rep", {}, <<r>>, min, max)
\* \b
WordBoundary == Node("wb", {}, <<>>, 0, 0)
\* a literal word under the i flag
WordI(chars) == Cat([i \in 1..Len(chars) |-> Cls(CaseSet(chars[i]))])

IsWordAt(s, i) == i >= 1 /\ i <= Len(s) /\ s[i] \in WordChar

RECURSIVE Match(_, _, _), MatchSeq(_, _, _, _), SeqAfter(_, _, _, _, _),
          MatchAlt(_, _, _, _), MatchRep(_, _, _, _), RepAfter(_, _, _, _, _)

Match(r, s, i) ==
    CASE r.t = "set" -> IF i <= Len(s) /\ s[i] \in r.cs THEN <<i + 1>> ELSE <<>>
      [] r.t = "wb"  -> IF IsWordAt(s, i - 1) # IsWordAt(s, i)
                        THEN <<i>> ELSE <<>>
      [] r.t = "seq" -> MatchSeq(r.rs, 1, s, i)
      [] r.t = "alt" -> MatchAlt(r.rs, 1, s, i)
      [] r.t = "rep" -> MatchRep(r, 0, s, i)

MatchSeq(rs, k, s, i) ==
    IF k > Len(rs) THEN <<i>>
    ELSE SeqAfter(Match(rs[k], s, i), 1, rs, k + 1, s)

SeqAfter(ends, n, rs, k, s) ==
    IF n > Len(ends) THEN <<>>
    ELSE MatchSeq(rs, k, s, ends[n]) \o SeqAfter(ends, n + 1, rs, k, s)

MatchAlt(rs, k, s, i) ==
    IF k > Len(rs) THEN <<>>
    ELSE Match(rs[k], s, i) \o MatchAlt(rs, k + 1, s, i)

\* one more repetition is tried before stopping (the repeated expressions of
\* maskText are character classes, so a repetition always consumes)
MatchRep(r, count, s, i) ==
    (IF r.max = -1 \/ count < r.max
     THEN RepAfter(Match(r.rs[1], s, i), 1, r, count + 1, s) ELSE <<>>)
    \o (IF count >= r.min THEN <<i>> ELSE <<>>)

RepAfter(ends, n, r, count, s) ==
    IF n > Len(ends) THEN <<>>
    ELSE MatchRep(r, count, s, ends[n]) \o RepAfter(ends, n + 1, r, count, s)

\* String.prototype.replace with a g-flagged regular expression
RECURSIVE ReplaceFrom(_, _, _, _)
ReplaceFrom(r, repl, s, i) ==
    IF i > Len(s) THEN <<>>
    ELSE LET ends == Match(r, s, i)
         IN  IF ends # <<>>
             THEN repl \o ReplaceFrom(r, repl, s, ends[1])
             ELSE <<s[i]>> \o ReplaceFrom(r, repl, s, i + 1)

ReplaceAll(r, repl, s) == ReplaceFrom(r, repl, s, 1)

\* /[A-Z0-9._%+-]+@[A-Z0-9.-]+\.[A-Z]{2,}/ig
EmailRe ==
    Cat(<<Rep(Cls(Upper \cup Lower \cup Digit \cup {".","_","%","+","-"}), 1, -1),
          Cls({"@"}),
          Rep(Cls(Upper \cup Lower \cup Digit \cup {".","-"}), 1, -1),
          Cls({"."}),
          Rep(Cls(Upper \cup Lower), 2, -1)>>)

\* /\b(?:\+?\d[\d\s\-()]{7,}\d)\b/g
PhoneRe ==
    Cat(<<WordBoundary,
          Rep(Cls({"+"}), 0, 1),
          Cls(Digit),
          Rep(Cls(Digit \cup Space \cup {"-","(",")"}), 7, -1),
          Cls(Digit),
          WordBoundary>>)

\* /\b(?:badge|warrant|employee|staff)\s*#?\s*\d{3,}\b/ig
BadgeRe ==
    Cat(<<WordBoundary,
          Alt(<<WordI(<<"b","a","d","g","e">>),
                WordI(<<"w","a","r","r","a","n","t">>),
                WordI(<<"e","m","p","l","o","y","e","e">>),
                WordI(<<"s","t","a","f","f">>)>>),
          Rep(Cls(Space), 0, -1),
          Rep(Cls({"#"}), 0, 1),
          Rep(Cls(Space), 0, -1),
          Rep(Cls(Digit), 3, -1),
          WordBoundary>>)

\* /\b[A-Z]{2,5}\d{3,6}\b/g
IdLikeRe ==
    Cat(<<WordBoundary,
          Rep(Cls(Upper), 2, 5),
          Rep(Cls(Digit), 3, 6),
          WordBoundary>>)

RedactedEmail ==
    <<"[","r","e","d","a","c","t","e","d","-","e","m","a","i","l","]">>
RedactedPhone ==
    <<"[","r","e","d","a","c","t","e","d","-","p","h","o","n","e","]">>
RedactedIdNumbered == <<"[","I","D","1","2","3","]">>

RedactedId ==
    <<"[","r","e","d","a","c","t","e","d","-","i","d","]">>

\* maskText(text) for a non-empty string (String(text) is text itself)
MaskString(text) ==
    ReplaceAll(IdLikeRe, RedactedId,
        ReplaceAll(BadgeRe, RedactedId,
            ReplaceAll(PhoneRe, RedactedPhone,
                ReplaceAll(EmailRe, RedactedEmail, text))))

-----------------------------------------------------------------------------
(* Redaction: objects.                                                       *)
(* Objects and arrays live in a heap, a function from addresses to cells. A  *)
(* cell is a function from property names (an object) or from 1..n (an       *)
(* array) to values. A value is a text, a key string, a boolean, a reference *)
(* to an array or to an object, or undefined (which is also how an absent    *)
(* property reads). Assignments through one reference are seen through every *)
(* other reference to the same address, as in the program.                   *)

Val(k, v) == [k |-> k, v |-> v]
\* a string the masks apply to, as a sequence of characters
Txt(t) == Val("txt", t)
\* an id or an attachment key
Str(s) == Val("str", s)
Flag(b) == Val("bool", b)
Arr(a) == Val("arr", a)
Obj(a) == Val("obj", a)
Undef == Val("undef", 0)

IsRef(v) == v.k \in {"arr", "obj"}

\* the truth value a JavaScript condition gives v
Truthy(v) ==
    CASE v.k = "txt"  -> v.v # <<>>
      [] v.k = "str"  -> v.v # ""
      [] v.k = "bool" -> v.v
      [] v.k = "undef" -> FALSE
      [] OTHER -> TRUE

\* v === false
IsFalse(v) == v.k = "bool" /\ ~v.v

\* obj[key]
GetField(h, a, key) == IF key \in DOMAIN h[a] THEN h[a][key] ELSE Undef

\* obj[key] = v
SetField(h, a, key, v) ==
    LET cell == h[a]
    IN  [h EXCEPT ![a] =
            [x \in DOMAIN cell \cup {key} |-> IF x = key THEN v ELSE cell[x]]]

\* (v || []) as a sequence of values
Elems(h, v) == IF v.k = "arr" THEN h[v.v] ELSE <<>>

\* a new object or array at address a
Alloc(h, a, cell) == (a :> cell) @@ h

MaxAddr(h) == CHOOSE a \in DOMAIN h : \A b \in DOMAIN h : b <= a

\* the address of the object or array that a step creates for object obj;
\* slot tells the steps apart. base is above every address in use before.
Fresh(base, obj, slot) == base + 8 * obj + slot

RefsOf(cell) == {cell[x].v : x \in {y \in DOMAIN cell : IsRef(cell[y])}}

RECURSIVE ReachFrom(_, _, _)
ReachFrom(h, frontier, seen) ==
    IF frontier = {} THEN seen
    ELSE LET new == (UNION {RefsOf(h[a]) : a \in frontier}) \ (seen \cup frontier)
         IN  ReachFrom(h, new, seen \cup frontier)

\* the addresses of the objects and arrays that can be reached from a
Reach(h, a) == ReachFrom(h, {a}, {})

\* String(text) of a truthy value
ToText(v) == IF v.k = "bool" THEN <<"t","r","u","e">> ELSE v.v

\* maskText(text)
maskText(v) == IF ~Truthy(v) THEN Txt(<<>>) ELSE Txt(MaskString(ToText(v)))

ShallowClone(h, root) ==
    LET off == MaxAddr(h)
    IN  [heap |-> Alloc(h, root + off, h[root]), root |-> root + off]

\* JSON.parse(JSON.stringify(complaint)): every object and array reachable
\* from root is created anew (at its address + off), holding the same texts,
\* keys and booleans
JsonClone(h, root) ==
    LET off == MaxAddr(h)
        Moved(cell) ==
            [x \in DOMAIN cell |->
                IF IsRef(cell[x]) THEN [cell[x] EXCEPT !.v = @ + off]
                ELSE cell[x]]
    IN  [heap |-> [a \in {x + off : x \in Reach(h, root)} |-> Moved(h[a - off])]
                  @@ h,
         root |-> root + off]

\* every text of the object masked, whatever keys names
RedactFieldsAll(h, a, keys) ==
    LET cell == h[a]
    IN  [h EXCEPT ![a] =
            [x \in DOMAIN cell |->
                IF cell[x].k = "txt" /\ Truthy(cell[x]) THEN maskText(cell[x])
                ELSE cell[x]]]

\* redactFields(obj, keys)
RedactFields(h, a, keys) ==
    LET cell == h[a]
    IN  [h EXCEPT ![a] =
            [x \in DOMAIN cell |->
                IF x \in keys /\ Truthy(cell[x]) THEN maskText(cell[x])
                ELSE cell[x]]]

rootKeys == {"title", "institution", "contactPerson", "complaintContent",
             "institutionAddress", "institutionEmail", "status",
             "passwordHint", "agreedTerms"}

concernKeys == {"summary", "details", "decisionMaker", "response"}

\* complaint.redactOverrides || {}, read at key
Override(h, complaint, key) ==
    LET ov == GetField(h, complaint, "redactOverrides")
    IN  IF ov.k = "obj" THEN GetField(h, ov.v, key) ELSE Undef

MaskedWhenFlagTrue(ovv) == ovv.k = "bool" /\ ovv.v

\* overrides[k] !== false
ToBeMasked(ovv) == ~IsFalse(ovv)

\* (overrides.concerns||{})[ck] || {}, read at key
ConcernOverride(h, complaint, ck, key) ==
    LET cm == Override(h, complaint, "concerns")
        cov == IF cm.k = "obj" THEN GetField(h, cm.v, ck) ELSE Undef
    IN  IF cov.k = "obj" THEN GetField(h, cov.v, key) ELSE Undef

\* (overrides.safeAttachments||[]).includes(key)
IsSafeAttachment(h, complaint, key) ==
    LET safe == Elems(h, Override(h, complaint, "safeAttachments"))
    IN  \E j \in 1..Len(safe) : safe[j] = key

\* (x.urls||[]).map(u => flag===false ? u : maskText(u)), as a new array
MapUrls(h, urls, keep) ==
    LET src == Elems(h, urls)
    IN  [j \in 1..Len(src) |-> IF keep THEN src[j] ELSE maskText(src[j])]

\* c.notes = (c.notes||[]).map(n => ({ ...n, text: ..., urls: ... })):
\* the objects and arrays it creates for the notes from the j-th on
RECURSIVE MapNotes(_, _, _, _, _, _)
MapNotes(h, base, src, j, keepText, keepUrls) ==
    IF j > Len(src) THEN h
    ELSE LET n == src[j].v
             urls == Fresh(base, n, 1)
             h1 == Alloc(h, urls, MapUrls(h, GetField(h, n, "urls"), keepUrls))
             text == IF keepText THEN GetField(h, n, "text")
                     ELSE maskText(GetField(h, n, "text"))
             note == [x \in DOMAIN h[n] \cup {"text", "urls"} |->
                        CASE x = "text" -> text
                          [] x = "urls" -> Arr(urls)
                          [] OTHER -> h[n][x]]
         IN  MapNotes(Alloc(h1, Fresh(base, n, 0), note), base, src, j + 1,
                      keepText, keepUrls)

\* c.responses = (c.responses||[]).map(r => ({ ...r, decisionMaker: ...,
\* text: ..., urls: ... }))
RECURSIVE MapResponses(_, _, _, _, _, _, _)
MapResponses(h, base, src, j, keepDecision, keepText, keepUrls) ==
    IF j > Len(src) THEN h
    ELSE LET r == src[j].v
             urls == Fresh(base, r, 1)
             h1 == Alloc(h, urls, MapUrls(h, GetField(h, r, "urls"), keepUrls))
             dm == IF keepDecision THEN GetField(h, r, "decisionMaker")
                   ELSE maskText(GetField(h, r, "decisionMaker"))
             text == IF keepText THEN GetField(h, r, "text")
                     ELSE maskText(GetField(h, r, "text"))
             resp == [x \in DOMAIN h[r] \cup {"decisionMaker", "text", "urls"} |->
                        CASE x = "decisionMaker" -> dm
                          [] x = "text" -> text
                          [] x = "urls" -> Arr(urls)
                          [] OTHER -> h[r][x]]
         IN  MapResponses(Alloc(h1, Fresh(base, r, 0), resp), base, src, j + 1,
                          keepDecision, keepText, keepUrls)

\* the array of the objects MapNotes or MapResponses created
Mapped(base, src) == [j \in 1..Len(src) |-> Obj(Fresh(base, src[j].v, 0))]

\* the flag read from the override of any concern, whatever its id
KeepForAnyConcern(h, complaint, c, key) ==
    LET cm == Override(h, complaint, "concerns")
    IN  /\ cm.k = "obj"
        /\ \E ck \in DOMAIN h[cm.v] :
              IsFalse(ConcernOverride(h, complaint, ck, key))

\* cov[key] === false, for the concern at address c, where
\* ck = c.id || '' and cov = (overrides.concerns||{})[ck] || {}
Keep(h, complaint, c, key) ==
    LET idv == GetField(h, c, "id")
        ck == IF Truthy(idv) THEN idv.v ELSE ""
    IN  IsFalse(ConcernOverride(h, complaint, ck, key))

\* redactFields(c, ['summary','details','decisionMaker','response']
\*                    .filter(k => cov[k] !== false))
ConcernFields(h, complaint, c) ==
    RedactFields(h, c, {k \in concernKeys : ~Keep(h, complaint, c, k)})

\* c.evidence left as the JSON round trip copied it
ConcernEvidenceKept(h, base, c) == h

\* c.evidence = (c.evidence||[]).map(e => maskText(e))
ConcernEvidence(h, base, c) ==
    LET ev == Elems(h, GetField(h, c, "evidence"))
    IN  SetField(Alloc(h, Fresh(base, c, 1),
                       [j \in 1..Len(ev) |-> maskText(ev[j])]),
                 c, "evidence", Arr(Fresh(base, c, 1)))

\* one flag, notesText, deciding for the text and for the urls of the notes
ConcernNotesOneFlag(h, base, complaint, c) ==
    LET notes == Elems(h, GetField(h, c, "notes"))
    IN  SetField(Alloc(MapNotes(h, base, notes, 1,
                                Keep(h, complaint, c, "notesText"),
                                Keep(h, complaint, c, "notesText")),
                       Fresh(base, c, 2), Mapped(base, notes)),
                 c, "notes", Arr(Fresh(base, c, 2)))

\* c.notes = (c.notes||[]).map(...)
ConcernNotes(h, base, complaint, c) ==
    LET notes == Elems(h, GetField(h, c, "notes"))
    IN  SetField(Alloc(MapNotes(h, base, notes, 1,
                                Keep(h, complaint, c, "notesText"),
                                Keep(h, complaint, c, "notesUrls")),
                       Fresh(base, c, 2), Mapped(base, notes)),
                 c, "notes", Arr(Fresh(base, c, 2)))

\* c.responses = (c.responses||[]).map(...)
ConcernResponses(h, base, complaint, c) ==
    LET resps == Elems(h, GetField(h, c, "responses"))
    IN  SetField(Alloc(MapResponses(h, base, resps, 1,
                                    Keep(h, complaint, c, "responsesDecision"),
                                    Keep(h, complaint, c, "responsesText"),
                                    Keep(h, complaint, c, "responsesUrls")),
                       Fresh(base, c, 3), Mapped(base, resps)),
                 c, "responses", Arr(Fresh(base, c, 3)))

\* if (Array.isArray(c.attachments))
\*     c.attachments = c.attachments.filter(key => safeAttachments.includes(key))
ConcernAttachments(h, base, complaint, c) ==
    LET att == GetField(h, c, "attachments")
        IsSafe(key) == IsSafeAttachment(h, complaint, key)
    IN  IF att.k = "arr"
        THEN SetField(Alloc(h, Fresh(base, c, 4), SelectSeq(h[att.v], IsSafe)),
                      c, "attachments", Arr(Fresh(base, c, 4)))
        ELSE h

\* the body of (redacted.concerns||[]).forEach(c => { ... }) for the concern
\* at address c; complaint is the argument of redactComplaintDeep
RedactConcern(h, base, complaint, c) ==
    ConcernAttachments(
        ConcernResponses(
            ConcernNotes(
                ConcernEvidence(ConcernFields(h, complaint, c), base, c),
                base, complaint, c),
            base, complaint, c),
        base, complaint, c)

RECURSIVE RedactConcerns(_, _, _, _, _)
RedactConcerns(h, base, complaint, cs, i) ==
    IF i > Len(cs) THEN h
    ELSE RedactConcerns(RedactConcern(h, base, complaint, cs[i].v),
                        base, complaint, cs, i + 1)

\* redactComplaintDeep(complaint): the heap after the call and the address
\* of the object it returns
redactComplaintDeep(h, complaint) ==
    LET clone == JsonClone(h, complaint)
        redacted == clone.root
        base == 2 * MaxAddr(h)
        h1 == RedactFields(clone.heap, redacted,
                  {k \in rootKeys : ToBeMasked(Override(clone.heap, complaint, k))})
        cs == Elems(h1, GetField(h1, redacted, "concerns"))
    IN  [heap |-> RedactConcerns(h1, base, complaint, cs, 1), root |-> redacted]

-----------------------------------------------------------------------------
(* Spec: the audit trail of one complaint from page load on. *)

Init ==
    /\ stored \in StoredHistories
    /\ history = stored
    /\ pending = {}
    /\ today = 1
    /\ nCalls = 0
    /\ overlapped = FALSE
    /\ pc = "boot"
    /\ lastPush = NoPush
    /\ tamper = NoTamper
    /\ auditOk = FALSE
    /\ RedactIdle
    /\ ExtIdle

\* Data.init: the backfill loop
DataInitBackfill ==
    /\ pc = "boot"
    /\ history' = Backfill(history)
    /\ pc' = "backfilled"
    /\ UNCHANGED <<stored, pending, today, nCalls, overlapped, lastPush,
                   tamper, auditOk>>
    /\ UNCHANGED <<redactVars, extVars>>

\* Data.init saves (this.save()) and main continues after `await Data.init()`:
\* the handlers are bound
MainReady ==
    /\ pc = "backfilled"
    /\ pc' = "ready"
    /\ stored' = history
    /\ UNCHANGED <<history, pending, today, nCalls, overlapped, lastPush,
                   tamper, auditOk>>
    /\ UNCHANGED <<redactVars, extVars>>

\* Data.reloadForCurrentUser (after a login or logout): the complaints of the
\* user's namespace are parsed from localStorage, with no backfill
ReloadForCurrentUser(h) ==
    /\ pc = "ready"
    /\ pending = {}
    /\ nCalls = 0
    /\ history' = h
    /\ stored' = h
    /\ UNCHANGED <<pending, today, nCalls, overlapped, pc, lastPush, tamper,
                   auditOk>>
    /\ UNCHANGED <<redactVars, extVars>>

\* appendHistory up to its await: date and prevHash are read, the digest of
\* the template string is requested
AppendStart(eventText) ==
    /\ pc = "ready"
    /\ nCalls < MaxCalls
    /\ LET date == Dates[today]
           prevHash == PrevHash(history)
       IN  pending' = pending \cup
               {[id |-> nCalls + 1, date |-> date, event |-> eventText,
                 input |-> HashInput(prevHash, date, eventText)]}
    /\ nCalls' = nCalls + 1
    /\ overlapped' = (overlapped \/ pending # {})
    /\ UNCHANGED <<history, stored, today, pc, lastPush, tamper, auditOk>>
    /\ UNCHANGED <<redactVars, extVars>>

\* appendHistory after its await: the digest has resolved, the entry is pushed
AppendFinish(call) ==
    /\ call \in pending
    /\ history' = PushEntry(history,
                            Entry(call.date, call.event, sha256Hex(call.input)))
    /\ pending' = pending \ {call}
    /\ lastPush' = [n |-> 1, date |-> call.date, event |-> call.event,
                    before |-> history]
    /\ UNCHANGED <<stored, today, nCalls, overlapped, pc, tamper, auditOk>>
    /\ UNCHANGED <<redactVars, extVars>>

\* midnight (UTC) passes
Tick ==
    /\ pc = "ready"
    /\ today < Len(Dates)
    /\ today' = today + 1
    /\ UNCHANGED <<history, stored, pending, nCalls, overlapped, pc, lastPush,
                   tamper, auditOk>>
    /\ UNCHANGED <<redactVars, extVars>>

Next ==
    \/ DataInitBackfill
    \/ MainReady
    \/ \E h \in ReloadHistories : ReloadForCurrentUser(h)
    \/ \E e \in Events : AppendStart(e)
    \/ \E c \in pending : AppendFinish(c)
    \/ Tick

Spec == Init /\ [][Next]_vars

-----------------------------------------------------------------------------
(* SpecTamper: a stored history is edited outside the program (one field of  *)
(* one entry changed, two neighbours swapped, or one entry removed, no hash  *)
(* recomputed) and is then shown: showComplaintDetails calls                 *)
(* verifyHistoryChain on it.                                                 *)

InitTamper ==
    /\ stored \in StoredHistories
    /\ history = stored
    /\ pending = {}
    /\ today = 1
    /\ nCalls = 0
    /\ overlapped = FALSE
    /\ pc = "t_stored"
    /\ lastPush = NoPush
    /\ tamper = NoTamper
    /\ auditOk = FALSE
    /\ RedactIdle
    /\ ExtIdle

Tampered(kind, i, hist) ==
    /\ pc = "t_stored"
    /\ history' = hist
    /\ tamper' = [kind |-> kind, idx |-> i]
    /\ pc' = "t_edited"
    /\ UNCHANGED <<stored, pending, today, nCalls, overlapped, lastPush,
                   auditOk>>
    /\ UNCHANGED <<redactVars, extVars>>

EditEvent(i, e) ==
    /\ e # history[i].event
    /\ Tampered("event", i, [history EXCEPT ![i].event = e])

EditDate(i, d) ==
    /\ d # history[i].date
    /\ Tampered("date", i, [history EXCEPT ![i].date = d])

SwapAdjacent(i) ==
    /\ i < Len(history)
    /\ Tampered("swap", i,
                [history EXCEPT ![i] = history[i + 1], ![i + 1] = history[i]])

RemoveEntry(i) ==
    Tampered("remove", i,
             SubSeq(history, 1, i - 1) \o SubSeq(history, i + 1, Len(history)))

\* showComplaintDetails: const auditOk = await verifyHistoryChain(complaint)
ShowComplaintDetails ==
    /\ pc = "t_edited"
    /\ auditOk' = verifyHistoryChain(history)
    /\ pc' = "t_verified"
    /\ UNCHANGED <<history, stored, pending, today, nCalls, overlapped,
                   lastPush, tamper>>
    /\ UNCHANGED <<redactVars, extVars>>

NextTamper ==
    \/ \E i \in 1..Len(history) : \E e \in TamperEvents : EditEvent(i, e)
    \/ \E i \in 1..Len(history) : \E d \in TamperDates : EditDate(i, d)
    \/ \E i \in 1..Len(history) : SwapAdjacent(i)
    \/ \E i \in 1..Len(history) : RemoveEntry(i)
    \/ ShowComplaintDetails

SpecTamper == InitTamper /\ [][NextTamper]_vars

-----------------------------------------------------------------------------
(* SpecRedact: a complaint is built in memory, redactComplaintDeep is called *)
(* on it, and the caller then changes the structure it got back.             *)

\* the complaint passed to redactComplaintDeep
RootAddr == 1

ConcernIds == <<"conc_001", "conc_002", "conc_003", "conc_004">>
ConcernFileKeys == <<"cmp_001:conc_001:a.pdf", "cmp_001:conc_002:a.pdf",
                     "cmp_001:conc_003:a.pdf", "cmp_001:conc_004:a.pdf">>
ResponseFileKeys == <<"cmp_001:conc_001:resp_001:b.pdf",
                      "cmp_001:conc_002:resp_001:b.pdf",
                      "cmp_001:conc_003:resp_001:b.pdf",
                      "cmp_001:conc_004:resp_001:b.pdf">>
RootFileKey == "cmp_001:c.pdf"

\* texts of the fields; most hold something a mask matches
SampleText(key) ==
    CASE key = "title" -> <<"A","B","1","2","3">>
      [] key = "institution" -> <<"G","M","C">>
      [] key = "contactPerson" -> <<"s","t","a","f","f"," ","1","2","3">>
      [] key = "complaintContent" -> <<"a","@","b",".","c","o">>
      [] key = "institutionAddress" -> <<"1"," ","H","i","g","h"," ","S","t">>
      [] key = "institutionEmail" -> <<"c","@","d",".","o","r","g">>
      [] key = "status" -> <<"F","i","l","e","d">>
      [] key = "passwordHint" -> <<"Z","Z","9","9","9">>
      [] key = "agreedTerms" -> <<"1","2","3","4","5","6","7","8","9">>
      [] key = "summary" -> <<"P","C","1","2","3","4">>
      [] key = "details" -> <<"e","@","f",".","u","k">>
      [] key = "decisionMaker" -> <<"b","a","d","g","e","#","7","7","7">>
      [] key = "response" -> <<"n","o","n","e">>
      [] key = "text" -> <<"x"," ","g","@","h",".","i","o">>
      [] key = "url" -> <<"h",".","i","o","/","A","B","1","2","3">>
      [] key = "dateFiled" -> <<"2","0","2","5","-","0","5","-","0","1">>
      [] OTHER -> <<"x">>

covKeys == concernKeys \cup {"notesText", "notesUrls", "responsesText",
                             "responsesUrls", "responsesDecision", "evidence"}

\* the first address of the objects and arrays of the i-th concern
ConcernBase(i) == 10 * i + 10
\* the address of the override object of the i-th concern
CovAddr(i) == 10 + i

AbsentChoices == {{}, {"title"}, {"status", "agreedTerms"}}

OverrideChoices ==
    {[has |-> FALSE, off |-> {}, on |-> {}]} \cup
    {[has |-> TRUE, off |-> f, on |-> t] :
        f \in {{}, {"title"}, {"status"}, {"title", "institutionEmail"},
               {"evidence"}},
        t \in {{}, {"complaintContent"}}}

SafeChoices ==
    {[has |-> FALSE, keys |-> <<>>],
     [has |-> TRUE, keys |-> <<>>],
     [has |-> TRUE, keys |-> <<ConcernFileKeys[1]>>],
     [has |-> TRUE, keys |-> <<RootFileKey, ResponseFileKeys[1]>>],
     [has |-> TRUE, keys |-> <<"cmp_009:z.pdf">>],
     [has |-> TRUE, keys |-> <<RootFileKey, ConcernFileKeys[1],
                              ResponseFileKeys[1], ConcernFileKeys[2]>>]}

CovChoices ==
    {[i |-> 0, off |-> {}, on |-> {}],
     [i |-> 1, off |-> {"summary"}, on |-> {}],
     [i |-> 1, off |-> {"notesText"}, on |-> {}],
     [i |-> 2, off |-> {"details", "responsesUrls"}, on |-> {}],
     [i |-> 1, off |-> {"evidence", "response"}, on |-> {"summary"}]}

\* the objects and arrays of the i-th concern
ConcernCells(i) ==
    LET b == ConcernBase(i)
    IN  (b :> [id |-> Str(ConcernIds[i]),
               summary |-> Txt(SampleText("summary")),
               details |-> Txt(SampleText("details")),
               decisionMaker |-> Txt(SampleText("decisionMaker")),
               response |-> Txt(SampleText("response")),
               evidence |-> Arr(b + 1),
               notes |-> Arr(b + 2),
               responses |-> Arr(b + 5),
               attachments |-> Arr(b + 9)])
        @@ (b + 1 :> <<Txt(SampleText("url"))>>)
        @@ (b + 2 :> <<Obj(b + 3)>>)
        @@ (b + 3 :> [id |-> Str("note_001"),
                      text |-> Txt(SampleText("text")),
                      urls |-> Arr(b + 4)])
        @@ (b + 4 :> <<Txt(SampleText("url"))>>)
        @@ (b + 5 :> <<Obj(b + 6)>>)
        @@ (b + 6 :> [id |-> Str("resp_001"),
                      decisionMaker |-> Txt(SampleText("decisionMaker")),
                      text |-> Txt(SampleText("text")),
                      urls |-> Arr(b + 7),
                      attachments |-> Arr(b + 8)])
        @@ (b + 7 :> <<Txt(SampleText("url"))>>)
        @@ (b + 8 :> <<Str(ResponseFileKeys[i])>>)
        @@ (b + 9 :> <<Str(ConcernFileKeys[i])>>)

RECURSIVE AllConcernCells(_)
AllConcernCells(n) ==
    IF n = 0 THEN <<>> ELSE ConcernCells(n) @@ AllConcernCells(n - 1)

\* complaint.redactOverrides and what hangs from it
OverrideCells(ov, safe, cov) ==
    (4 :> [x \in rootKeys \cup {"safeAttachments", "concerns", "evidence"} |->
             CASE x = "safeAttachments" -> IF safe.has THEN Arr(5) ELSE Undef
               [] x = "concerns" -> IF cov.i > 0 THEN Obj(6) ELSE Undef
               [] x \in ov.off -> Flag(FALSE)
               [] x \in ov.on -> Flag(TRUE)
               [] OTHER -> Undef])
    @@ (IF safe.has
        THEN 5 :> [j \in 1..Len(safe.keys) |-> Str(safe.keys[j])]
        ELSE <<>>)
    @@ (IF cov.i > 0
        THEN (6 :> [x \in {ConcernIds[cov.i]} |-> Obj(CovAddr(cov.i))])
             @@ (CovAddr(cov.i) :>
                    [x \in covKeys |->
                        IF x \in cov.off THEN Flag(FALSE)
                        ELSE IF x \in cov.on THEN Flag(TRUE) ELSE Undef])
        ELSE <<>>)

\* a complaint as handleAddComplaint and the concern, note and response
\* dialogs build it
BuildComplaint(absent, ov, safe, cov, n) ==
    (RootAddr :>
        [x \in rootKeys \cup {"id", "dateFiled", "attachments", "concerns",
                              "redactOverrides", "history"} |->
            CASE x = "id" -> Str("cmp_001")
              [] x = "attachments" -> Arr(2)
              [] x = "concerns" -> Arr(3)
              [] x = "redactOverrides" -> IF ov.has THEN Obj(4) ELSE Undef
              [] x = "history" -> Arr(7)
              [] x \in absent -> Undef
              [] OTHER -> Txt(SampleText(x))])
    @@ (2 :> <<Str(RootFileKey)>>)
    @@ (3 :> [i \in 1..n |-> Obj(ConcernBase(i))])
    @@ (IF ov.has THEN OverrideCells(ov, safe, cov) ELSE <<>>)
    @@ (7 :> <<Obj(8)>>)
    @@ (8 :> [date |-> Str(Dates[1]),
              event |-> Txt(SampleText("title")),
              hash |-> Str(sha256Hex(HashInput("", Dates[1], "AB123")))])
    @@ AllConcernCells(n)

\* what a complaint may lack: the concerns; the lists of a concern; texts and
\* urls of concerns, notes and responses; or it holds the lists, all empty
LackChoices ==
    {{"concerns"},
     {"evidence", "notes", "responses", "attachments"},
     {"summary", "id", "notes.text", "notes.urls", "responses.decisionMaker",
      "responses.text", "responses.urls"},
     {"empty"}}

\* the object cell without the keys of lack that start with prefix
Drop(cell, prefix, lack) ==
    [x \in DOMAIN cell |-> IF prefix \o x \in lack THEN Undef ELSE cell[x]]

\* the complaint of heap h, with n concerns, without what lack names
Lacking(h, lack, n) ==
    LET At(slot) == {ConcernBase(i) + slot : i \in 1..n}
        h1 == [a \in DOMAIN h |->
                 CASE a = RootAddr -> Drop(h[a], "", lack \cap {"concerns"})
                   [] a \in At(0) -> Drop(h[a], "", lack)
                   [] a \in At(3) -> Drop(h[a], "notes.", lack)
                   [] a \in At(6) -> Drop(h[a], "responses.", lack)
                   [] a \in At(1) \cup At(2) \cup At(5) \cup At(9) ->
                        IF "empty" \in lack THEN <<>> ELSE h[a]
                   [] OTHER -> h[a]]
    IN  [a \in Reach(h1, RootAddr) |-> h1[a]]

\* the first concern with one of the flags of its notes and responses false
FlagChoices ==
    {[i |-> 1, off |-> {k}, on |-> {}] :
        k \in {"notesUrls", "responsesText", "responsesUrls",
               "responsesDecision"}}

\* what the complaints of the model are built from: a complaint without
\* redactOverrides has no safe list and no concern overrides
Shapes ==
    {in \in [absent : AbsentChoices, ov : OverrideChoices, safe : SafeChoices,
             cov : CovChoices, n : 0..MaxConcerns, lack : {{}}] :
        in.ov.has \/ (~in.safe.has /\ in.cov.i = 0)}
    \cup [absent : {{}}, ov : {[has |-> TRUE, off |-> {}, on |-> {}]},
          safe : {[has |-> FALSE, keys |-> <<>>]}, cov : FlagChoices,
          n : 0..MaxConcerns, lack : {{}}]
    \cup [absent : {{}},
          ov : {[has |-> FALSE, off |-> {}, on |-> {}],
                [has |-> TRUE, off |-> {}, on |-> {}]},
          safe : {[has |-> FALSE, keys |-> <<>>]},
          cov : {[i |-> 0, off |-> {}, on |-> {}]},
          n : 0..MaxConcerns, lack : LackChoices]

\* the heap that holds the complaint built from in, and nothing else
ComplaintHeap(in) ==
    Lacking(BuildComplaint(in.absent, in.ov, in.safe, in.cov, in.n),
            in.lack, in.n)

\* the chain part is not running
ChainIdle ==
    /\ history = <<>>
    /\ stored = <<>>
    /\ pending = {}
    /\ today = 1
    /\ nCalls = 0
    /\ overlapped = FALSE
    /\ pc = "idle"
    /\ lastPush = NoPush
    /\ tamper = NoTamper
    /\ auditOk = FALSE

InitRedact ==
    /\ ChainIdle
    /\ ExtIdle
    /\ shape \in Shapes
    /\ heap = ComplaintHeap(shape)
    /\ result = 0
    /\ rpc = "start"
    /\ dialog = NoDialog

\* const viewComplaint = redactComplaintDeep(complaint)
Redact ==
    /\ rpc = "start"
    /\ LET r == redactComplaintDeep(heap, RootAddr)
       IN  /\ heap' = r.heap
           /\ result' = r.root
    /\ rpc' = "redacted"
    /\ UNCHANGED <<shape, dialog>>
    /\ UNCHANGED <<chainVars, extVars>>

\* the addresses that hold arrays
ArrAddrs(h) ==
    {h[a][x].v : <<a, x>> \in
        UNION {{<<b, y>> : y \in {z \in DOMAIN h[b] : h[b][z].k = "arr"}} :
               b \in DOMAIN h}}

\* the caller changes what it got back: it pushes to every array and assigns
\* to every property of every object that it can reach from the result
WriteResult ==
    /\ rpc = "redacted"
    /\ LET mine == Reach(heap, result)
           arrays == ArrAddrs(heap)
       IN  heap' = [a \in DOMAIN heap |->
                      IF a \notin mine THEN heap[a]
                      ELSE IF a \in arrays THEN Append(heap[a], Str("changed"))
                      ELSE [x \in DOMAIN heap[a] |-> Str("changed")]]
    /\ rpc' = "written"
    /\ UNCHANGED <<shape, result, dialog>>
    /\ UNCHANGED <<chainVars, extVars>>

NextRedact ==
    \/ Redact
    \/ WriteResult

SpecRedact == InitRedact /\ [][NextRedact]_vars

-----------------------------------------------------------------------------
(* SpecMask: maskText is called on a text, and then on what it returned.     *)

\* most placeholder tokens in a text
MaxTokens == 2

Placeholders == {RedactedEmail, RedactedPhone, RedactedId}

\* what stands between two placeholder tokens
Separators == {<<>>, <<" ">>, <<",", " ">>, <<" ", "-", " ">>}

\* the texts made of n placeholder tokens with separators between them
RECURSIVE TokenTexts(_)
TokenTexts(n) ==
    IF n = 1 THEN Placeholders
    ELSE {t \o sep \o tok :
            t \in TokenTexts(n - 1), sep \in Separators, tok \in Placeholders}

PlaceholderTexts == {<<>>} \cup UNION {TokenTexts(n) : n \in 1..MaxTokens}

\* texts that hold something to mask
RawTexts ==
    {SampleText(key) : key \in {"title", "contactPerson", "complaintContent",
                                "agreedTerms", "url", "institution"}}

InitMask ==
    /\ ChainIdle
    /\ RedactIdle
    /\ UsersIdle
    /\ UiIdle
    /\ CallsIdle
    /\ mtext \in PlaceholderTexts \cup RawTexts
    /\ mouts = <<>>

\* maskText(text), the first time on mtext and then on what the call before
\* returned
MaskText ==
    /\ Len(mouts) < 2
    /\ mouts' = Append(mouts, maskText(IF mouts = <<>> THEN Txt(mtext)
                                       ELSE mouts[Len(mouts)]))
    /\ UNCHANGED mtext
    /\ UNCHANGED <<chainVars, redactVars, userVars, uiVars, callVars>>

NextMask == MaskText

SpecMask == InitMask /\ [][NextMask]_vars

-----------------------------------------------------------------------------
(* SpecUsers: one browser, its localStorage, and users who log in and out.   *)
(* A complaint is known by the namespace it was created under and a number;  *)
(* the complaints of the bundled data files and the demo complaints belong   *)
(* to no namespace.                                                          *)

\* most complaints created through the add form
MaxCreated == 2

\* 'AAAPPP' is seeded by Data.init; the other one has signed up
Users == {"AAAPPP", "bob"}

\* the <user> part of the localStorage keys
Namespaces == Users \cup {"admin", "public"}

Complaint(owner, n) == [owner |-> owner, n |-> n]

\* data/complaints.json
Bundled == {Complaint("bundled", 1)}

\* the complaints injectDemoData puts in memory when logged out
Demo == {Complaint("demo", 1), Complaint("demo", 2)}

\* localStorage.getItem(key) returned null
NoItem == [has |-> FALSE, items |-> {}]

Item(complaints) == [has |-> TRUE, items |-> complaints]

\* Data.save(): localStorage.setItem(this.key(...), JSON.stringify(this.complaints))
Save(store, user, complaints) == [store EXCEPT ![user] = Item(complaints)]

\* Data.reloadForCurrentUser(): lsC ? JSON.parse(lsC) : []
Reload(store, user) == store[user].items

\* Data.init(): the stored complaints, or the bundled files
LoadOrFiles(store, user) ==
    IF store[user].has THEN store[user].items ELSE Bundled

\* injectDemoData(), called when logged out
InjectDemo(complaints) == IF complaints = {} THEN Demo ELSE complaints

\* the accountability entries injectDemoData puts in memory when logged out
DemoAccountability == {"subj_demo1", "subj_demo2"}

\* an entry made by 'Send to Accountability'
OwnAccountability == {"subj_own"}

\* injectDemoData(): if (!Data.accountability.length) Data.accountability = [...]
InjectDemoAccountability(entries) ==
    IF entries = {} THEN DemoAccountability ELSE entries

\* Data.save(): localStorage.setItem(this.key(...), JSON.stringify(this.accountability))
SaveAccountability(store, user, entries) == [store EXCEPT ![user] = entries]

\* a browser that has loaded the page once, logged out, with empty storage
InitUsers ==
    /\ ChainIdle
    /\ RedactIdle
    /\ MaskIdle
    /\ UiIdle
    /\ CallsIdle
    /\ session = "public"
    /\ memory = Bundled
    /\ ls = [ns \in Namespaces |-> IF ns = "public" THEN Item(Bundled) ELSE NoItem]
    /\ created = 0
    /\ acc = DemoAccountability
    /\ lsacc = [ns \in Namespaces |-> {}]

UsersFrame == UNCHANGED <<chainVars, redactVars, maskVars, uiVars, callVars>>

\* main(): Data.init() with the session read from localStorage, then
\* injectDemoData() when logged out. Data.accountability is [] when the page
\* starts and is read from localStorage only when the complaints are.
PageLoad ==
    /\ LET loaded == LoadOrFiles(ls, session)
           entries == IF ls[session].has THEN lsacc[session] ELSE {}
       IN  /\ ls' = Save(ls, session, loaded)
           /\ lsacc' = SaveAccountability(lsacc, session, entries)
           /\ memory' = IF session = "public" THEN InjectDemo(loaded)
                         ELSE loaded
           /\ acc' = IF session = "public"
                     THEN InjectDemoAccountability(entries) ELSE entries
    /\ UNCHANGED <<session, created>>
    /\ UsersFrame

\* the add form: Data.upsertComplaint(complaint) of a new complaint
AddComplaint ==
    /\ created < MaxCreated
    /\ created' = created + 1
    /\ memory' = memory \cup {Complaint(session, created + 1)}
    /\ ls' = Save(ls, session, memory')
    /\ lsacc' = SaveAccountability(lsacc, session, acc)
    /\ UNCHANGED <<session, acc>>
    /\ UsersFrame

\* any handler that changes a complaint in memory and calls
\* Data.upsertComplaint on it
UpsertExisting ==
    /\ memory # {}
    /\ ls' = Save(ls, session, memory)
    /\ lsacc' = SaveAccountability(lsacc, session, acc)
    /\ UNCHANGED <<session, memory, created, acc>>
    /\ UsersFrame

\* 'Send to Accountability': Data.accountability.push(entry); Data.save()
SendToAccountability ==
    /\ memory # {}
    /\ acc' = acc \cup OwnAccountability
    /\ ls' = Save(ls, session, memory)
    /\ lsacc' = SaveAccountability(lsacc, session, acc')
    /\ UNCHANGED <<session, memory, created>>
    /\ UsersFrame

\* openAuthModal, login of a user:
\* Data.session.user = {...}; Data.save(); Data.reloadForCurrentUser()
Login(u) ==
    /\ session' = u
    /\ ls' = Save(ls, u, memory)
    /\ lsacc' = SaveAccountability(lsacc, u, acc)
    /\ memory' = Reload(ls', u)
    /\ acc' = lsacc'[u]
    /\ UNCHANGED created
    /\ UsersFrame

\* openAuthModal, login of admin: _loadFromFiles(), Data.accountability read
\* from the key without a user (which save() never writes), Data.save(),
\* Data.reloadForCurrentUser()
LoginAdmin ==
    /\ session' = "admin"
    /\ ls' = Save(ls, "admin", Bundled)
    /\ lsacc' = SaveAccountability(lsacc, "admin", {})
    /\ memory' = Reload(ls', "admin")
    /\ acc' = lsacc'["admin"]
    /\ UNCHANGED created
    /\ UsersFrame

\* logoutBtn: Data.session.user = null; Data.save(); injectDemoData()
Logout ==
    /\ session # "public"
    /\ session' = "public"
    /\ ls' = Save(ls, "public", memory)
    /\ lsacc' = SaveAccountability(lsacc, "public", acc)
    /\ memory' = InjectDemo(memory)
    /\ acc' = InjectDemoAccountability(acc)
    /\ UNCHANGED created
    /\ UsersFrame

NextUsers ==
    \/ PageLoad
    \/ AddComplaint
    \/ UpsertExisting
    \/ SendToAccountability
    \/ \E u \in Users : Login(u)
    \/ LoginAdmin
    \/ Logout

SpecUsers == InitUsers /\ [][NextUsers]_vars

-----------------------------------------------------------------------------
(* SpecUI: one complaint is created through the add form and the handlers of *)
(* its detail view run on it. A handler runs to its first await in one step; *)
(* an appendHistory call it has started is in pending until its digest       *)
(* resolves, and what the handler does after `await appendHistory(...)` runs *)
(* with the push of that call (field then of the call).                      *)

\* number of appendHistory calls on the complaint in one run
MaxUiCalls == 4

\* what the user can type in the status prompt
StatusChars(name) ==
    CASE name = "Filed" -> <<"F","i","l","e","d">>
      [] name = "Resolved" -> <<"R","e","s","o","l","v","e","d">>
      [] name = "Sent to PHSO" -> <<"S","e","n","t"," ","t","o"," ","P","H","S","O">>
      [] name = "Court claim" -> <<"C","o","u","r","t"," ","c","l","a","i","m">>
      [] name = "phso, then legal" ->
            <<"p","h","s","o",","," ","t","h","e","n"," ","l","e","g","a","l">>
      [] name = "Escalated to PHSO" ->
            <<"E","s","c","a","l","a","t","e","d"," ","t","o"," ","P","H","S","O">>
      [] name = "Legal" -> <<"L","e","g","a","l">>

PromptStatuses == {"Resolved", "Sent to PHSO", "Court claim", "phso, then legal"}

\* /phso/i
PhsoRe == WordI(<<"p","h","s","o">>)

\* /legal|litigat|court|claim|judicial/i
LegalRe ==
    Alt(<<WordI(<<"l","e","g","a","l">>),
          WordI(<<"l","i","t","i","g","a","t">>),
          WordI(<<"c","o","u","r","t">>),
          WordI(<<"c","l","a","i","m">>),
          WordI(<<"j","u","d","i","c","i","a","l">>)>>)

\* RegExp.prototype.test
Test(r, text) == \E i \in 1..Len(text) : Match(r, text, i) # <<>>

\* an appendHistory call suspended at its await: date and prevHash were read
\* from hist when it started
Call(id, hist, date, event, then) ==
    [id |-> id, date |-> date, event |-> event,
     input |-> HashInput(PrevHash(hist), date, event), then |-> then]

\* autoCreatePhsoCase / autoCreateLegalCase up to the await: nothing when the
\* case exists, else the case is pushed and appendHistory is called
AutoCreate(kind, have, id, hist, date) ==
    IF kind \in have THEN {}
    ELSE {Call(id, hist, date,
               IF kind = "phso" THEN "PHSO case created: phso_001"
               ELSE "Legal case created: legal_001",
               "upsert")}

UiFrame ==
    /\ UNCHANGED <<lastPush, tamper, auditOk>>
    /\ UNCHANGED <<redactVars, maskVars, userVars, callVars>>

\* the page with the add form, no complaint yet
InitUI ==
    /\ history = <<>>
    /\ stored = <<>>
    /\ pending = {}
    /\ today = 1
    /\ nCalls = 0
    /\ overlapped = FALSE
    /\ pc = "ui_form"
    /\ lastPush = NoPush
    /\ tamper = NoTamper
    /\ auditOk = FALSE
    /\ status = "Filed"
    /\ cases = {}
    /\ concerns = 0
    /\ RedactIdle
    /\ MaskIdle
    /\ UsersIdle
    /\ CallsIdle

\* the calls in new are started in one step
Started(new) ==
    /\ nCalls + Cardinality(new) <= MaxUiCalls
    /\ pending' = pending \cup new
    /\ nCalls' = nCalls + Cardinality(new)
    /\ overlapped' = (overlapped \/ pending # {} \/ Cardinality(new) > 1)

\* handleAddComplaint, submit: await appendHistory(complaint, "Complaint created")
SubmitAddForm ==
    /\ pc = "ui_form"
    /\ pc' = "ui_creating"
    /\ Started({Call(nCalls + 1, history, Dates[today], "Complaint created",
                     "created")})
    /\ UNCHANGED <<history, stored, today, status, cases, concerns>>
    /\ UiFrame

\* editBtn, click: appendHistory is called and not awaited, the complaint is
\* saved, and autoCreatePhsoCase / autoCreateLegalCase are called
StatusUpdate(newStatus) ==
    /\ pc = "ui_shown"
    /\ newStatus # status
    /\ status' = newStatus
    /\ LET date == Dates[today]
           first == Call(nCalls + 1, history, date,
                         "Status updated: " \o newStatus, "none")
           phso == IF Test(PhsoRe, StatusChars(newStatus))
                   THEN AutoCreate("phso", cases, nCalls + 2, history, date)
                   ELSE {}
           legal == IF Test(LegalRe, StatusChars(newStatus))
                    THEN AutoCreate("legal", cases, nCalls + 3, history, date)
                    ELSE {}
       IN  /\ Started({first} \cup phso \cup legal)
           /\ cases' = cases \cup (IF phso # {} THEN {"phso"} ELSE {})
                             \cup (IF legal # {} THEN {"legal"} ELSE {})
    /\ stored' = history
    /\ UNCHANGED <<history, today, pc, concerns>>
    /\ UiFrame

\* renderActionRequired, 'Send to PHSO': as editBtn with a fixed status
ActionRequiredPhso ==
    /\ pc = "ui_shown"
    /\ status' = "Escalated to PHSO"
    /\ LET date == Dates[today]
           first == Call(nCalls + 1, history, date,
                         "Escalated via Action Required", "none")
           phso == AutoCreate("phso", cases, nCalls + 2, history, date)
       IN  /\ Started({first} \cup phso)
           /\ cases' = cases \cup (IF phso # {} THEN {"phso"} ELSE {})
    /\ stored' = history
    /\ UNCHANGED <<history, today, pc, concerns>>
    /\ UiFrame

\* escalatePhsoBtn ('Escalate to PHSO') and markLegalBtn ('Mark as Legal'), up
\* to `await appendHistory(...)`
Escalate(kind) ==
    /\ pc = "ui_shown"
    /\ status' = (IF kind = "phso" THEN "Escalated to PHSO" ELSE "Legal")
    /\ Started({Call(nCalls + 1, history, Dates[today],
                     IF kind = "phso" THEN "Escalated to PHSO"
                     ELSE "Marked as Legal",
                     kind)})
    /\ UNCHANGED <<history, stored, today, pc, cases, concerns>>
    /\ UiFrame

\* concern delete and 'add files' of a concern: appendHistory is called and
\* not awaited, then the complaint is saved
ConcernUnawaited(event) ==
    /\ pc = "ui_shown"
    /\ concerns > 0
    /\ concerns' = (IF event = "Concern deleted: S" THEN concerns - 1
                    ELSE concerns)
    /\ Started({Call(nCalls + 1, history, Dates[today], event, "none")})
    /\ stored' = history
    /\ UNCHANGED <<history, today, pc, status, cases>>
    /\ UiFrame

\* concernSave of a new concern, up to `await appendHistory(...)`
ConcernAdd ==
    /\ pc = "ui_shown"
    /\ concerns < MaxConcerns
    /\ concerns' = concerns + 1
    /\ Started({Call(nCalls + 1, history, Dates[today], "Concern added: S",
                     "upsert")})
    /\ UNCHANGED <<history, stored, today, pc, status, cases>>
    /\ UiFrame

\* concernSave of an edited concern, the note dialog and the response dialog,
\* up to `await appendHistory(...)`
ConcernAwaited(event) ==
    /\ pc = "ui_shown"
    /\ concerns > 0
    /\ Started({Call(nCalls + 1, history, Dates[today], event, "upsert")})
    /\ UNCHANGED <<history, stored, today, pc, status, cases, concerns>>
    /\ UiFrame

\* the digest of a call resolves: appendHistory pushes its entry, and the
\* handler that awaited the call goes on
DigestResolved(call) ==
    /\ call \in pending
    /\ history' = PushEntry(history,
                            Entry(call.date, call.event, sha256Hex(call.input)))
    /\ pc' = (IF call.then = "created" THEN "ui_shown" ELSE pc)
    \* Data.upsertComplaint(complaint)
    /\ stored' = (IF call.then = "none" THEN stored ELSE history')
    \* await autoCreatePhsoCase(complaint) / autoCreateLegalCase(complaint)
    /\ LET auto == IF call.then \in {"phso", "legal"} /\ nCalls < MaxUiCalls
                   THEN AutoCreate(call.then, cases, nCalls + 1, history',
                                   Dates[today])
                   ELSE {}
       IN  /\ pending' = (pending \ {call}) \cup auto
           /\ nCalls' = nCalls + Cardinality(auto)
           /\ cases' = cases \cup (IF auto # {} THEN {call.then} ELSE {})
           /\ overlapped' = (overlapped \/ (auto # {} /\ pending # {call}))
    /\ UNCHANGED <<today, status, concerns>>
    /\ UiFrame

\* midnight (UTC) passes
TickUI ==
    /\ pc = "ui_shown"
    /\ today < Len(Dates)
    /\ today' = today + 1
    /\ UNCHANGED <<history, stored, pending, nCalls, overlapped, pc, status,
                   cases, concerns>>
    /\ UiFrame

NextUI ==
    \/ SubmitAddForm
    \/ \E st \in PromptStatuses : StatusUpdate(st)
    \/ ActionRequiredPhso
    \/ \E kind \in {"phso", "legal"} : Escalate(kind)
    \/ \E e \in {"Concern deleted: S", "Concern files added: S"} :
          ConcernUnawaited(e)
    \/ ConcernAdd
    \/ \E e \in {"Concern updated: S", "Note added to concern: S",
                 "Response added to concern: S"} : ConcernAwaited(e)
    \/ \E c \in pending : DigestResolved(c)
    \/ TickUI

SpecUI == InitUI /\ [][NextUI]_vars

-----------------------------------------------------------------------------
(* SpecCalls: one call of verifyHistoryChain, of appendHistory or of the     *)
(* backfill of Data.init, on a history as JSON.parse can yield it (entries   *)
(* with right, missing or stale hashes, and null entries), in a browser      *)
(* where crypto.subtle.digest works or in one where it fails.                *)

\* a null in the history array
NullEntry == Entry("(null)", "(null)", "(null)")

Outcome(op, res, digests) ==
    [op |-> op, result |-> res, digests |-> digests]

RECURSIVE VerifyRunAll(_, _, _, _)
VerifyRunAll(hist, i, prev, works) ==
    IF i > Len(hist) THEN Outcome("verify", "true", 0)
    ELSE IF hist[i] = NullEntry THEN Outcome("verify", "throws", 0)
    ELSE IF ~works THEN Outcome("verify", "throws", 1)
    ELSE LET h == hist[i]
             expected == sha256Hex(HashInput(prev, h.date, h.event))
             rest == VerifyRunAll(hist, i + 1, h.hash, works)
         IN  Outcome("verify",
                     IF rest.result = "throws" THEN "throws"
                     ELSE IF h.hash # expected THEN "false"
                     ELSE rest.result,
                     rest.digests + 1)

\* verifyHistoryChain(complaint) from the i-th entry on: what it returns
\* ("true", "false") or that it throws, and how many digests it asked for
RECURSIVE VerifyRun(_, _, _, _)
VerifyRun(hist, i, prev, works) ==
    IF i > Len(hist) THEN Outcome("verify", "true", 0)
    \* `${prev}|${h.date}|${h.event}` of a null h is a TypeError
    ELSE IF hist[i] = NullEntry THEN Outcome("verify", "throws", 0)
    \* await sha256Hex(...) rejects
    ELSE IF ~works THEN Outcome("verify", "throws", 1)
    ELSE LET h == hist[i]
             expected == sha256Hex(HashInput(prev, h.date, h.event))
         IN  IF h.hash # expected THEN Outcome("verify", "false", 1)
             ELSE LET rest == VerifyRun(hist, i + 1, h.hash, works)
                  IN  Outcome("verify", rest.result, rest.digests + 1)

\* the index of the first null entry of hist, or Len(hist) + 1
FirstNull(hist) ==
    IF \E i \in 1..Len(hist) : hist[i] = NullEntry
    THEN CHOOSE i \in 1..Len(hist) :
            /\ hist[i] = NullEntry
            /\ \A j \in 1..(i - 1) : hist[j] # NullEntry
    ELSE Len(hist) + 1

\* the specifications of the histories of SpecCalls
CallSpecs(n) ==
    [1..n -> [date : DateSet, event : Events, kind : HashKinds \cup {"null"}]]

\* the history built from a specification: as BuildStored, with null entries
WithNulls(spec) ==
    LET built == BuildStored(spec)
    IN  [i \in 1..Len(spec) |->
            IF spec[i].kind = "null" THEN NullEntry ELSE built[i]]

CallHistories ==
    UNION {{WithNulls(sp) : sp \in CallSpecs(n)} : n \in 0..MaxStored}

InitCalls ==
    /\ history \in CallHistories
    /\ stored = history
    /\ pending = {}
    /\ today = 1
    /\ nCalls = 0
    /\ overlapped = FALSE
    /\ pc = "c_start"
    /\ lastPush = NoPush
    /\ tamper = NoTamper
    /\ auditOk = FALSE
    /\ digestWorks \in BOOLEAN
    /\ outcome = NoOutcome
    /\ RedactIdle
    /\ MaskIdle
    /\ UsersIdle
    /\ UiIdle

CallsFrame ==
    /\ UNCHANGED <<stored, pending, today, nCalls, overlapped, lastPush,
                   tamper, auditOk, digestWorks>>
    /\ UNCHANGED <<redactVars, maskVars, userVars, uiVars>>

CallVerifyAndRepair ==
    /\ pc = "c_start"
    /\ pc' = "c_done"
    /\ outcome' = VerifyRun(history, 1, "", digestWorks)
    /\ history' = (IF outcome'.result = "false"
                   THEN Backfill(history) ELSE history)
    /\ CallsFrame

\* showComplaintDetails: await verifyHistoryChain(complaint)
CallVerify ==
    /\ pc = "c_start"
    /\ pc' = "c_done"
    /\ outcome' = VerifyRun(history, 1, "", digestWorks)
    /\ UNCHANGED history
    /\ CallsFrame

\* await appendHistory(complaint, eventText)
CallAppend(eventText) ==
    /\ pc = "c_start"
    /\ pc' = "c_done"
    /\ IF history # <<>> /\ history[Len(history)] = NullEntry
       \* reading .hash of a null last entry is a TypeError
       THEN /\ outcome' = Outcome("append", "throws", 0)
            /\ UNCHANGED history
       ELSE IF ~digestWorks
       THEN /\ outcome' = Outcome("append", "throws", 1)
            /\ UNCHANGED history
       ELSE /\ outcome' = Outcome("append", "done", 1)
            /\ history' = PushEntry(history,
                   Entry(Dates[today], eventText,
                         sha256Hex(HashInput(PrevHash(history), Dates[today],
                                             eventText))))
    /\ CallsFrame

\* Data.init: the backfill loop over the history, inside try { } catch { }.
\* The entries before the first null entry are walked; a failing digest or
\* a null entry ends the loop, and Data.init goes on.
CallBackfill ==
    /\ pc = "c_start"
    /\ pc' = "c_done"
    /\ LET k == FirstNull(history)
           walked == SubSeq(history, 1, k - 1)
           rest == SubSeq(history, k, Len(history))
       IN  IF walked # <<>> /\ ~digestWorks
           THEN /\ outcome' = Outcome("backfill", "swallowed", 1)
                /\ UNCHANGED history
           ELSE /\ outcome' = Outcome("backfill",
                                      IF rest # <<>> THEN "swallowed" ELSE "done",
                                      Len(walked))
                /\ history' = Backfill(walked) \o rest
    /\ CallsFrame

NextCalls ==
    \/ CallVerify
    \/ \E e \in Events : CallAppend(e)
    \/ CallBackfill

SpecCalls == InitCalls /\ [][NextCalls]_vars

-----------------------------------------------------------------------------
(* SpecView: the detail view of a complaint is open, the status is updated   *)
(* through editBtn, and showComplaintDetails verifies the chain while the    *)
(* appendHistory calls of the handler are still suspended. The digests of    *)
(* the calls and of verifyHistoryChain resolve in any order. outcome holds   *)
(* the run of verifyHistoryChain: digests is the index of the entry whose    *)
(* digest it awaits.                                                         *)

\* the history of a complaint created through the add form, and one that a
\* status update was appended to
ViewHistories ==
    LET first == Entry(Dates[1], "Complaint created",
                       sha256Hex(HashInput("", Dates[1], "Complaint created")))
        second == Entry(Dates[1], "Status updated: Resolved",
                        sha256Hex(HashInput(first.hash, Dates[1],
                                            "Status updated: Resolved")))
    IN  {<<first>>, <<first, second>>}

InitView ==
    /\ history \in ViewHistories
    /\ stored = history
    /\ pending = {}
    /\ today \in 1..Len(Dates)
    /\ nCalls = 0
    /\ overlapped = FALSE
    /\ pc = "v_shown"
    /\ lastPush = NoPush
    /\ tamper = NoTamper
    /\ auditOk = TRUE
    /\ status = (IF Len(history) = 1 THEN "Filed" ELSE "Resolved")
    /\ cases = {}
    /\ concerns = 0
    /\ RedactIdle
    /\ MaskIdle
    /\ UsersIdle
    /\ CallsIdle

ViewFrame ==
    /\ UNCHANGED <<today, lastPush, tamper, concerns, digestWorks>>
    /\ UNCHANGED <<redactVars, maskVars, userVars>>

\* editBtn, click: as StatusUpdate, and showComplaintDetails(complaint) runs
\* up to the first `await sha256Hex(...)` of verifyHistoryChain
ViewStatusUpdate(newStatus) ==
    /\ pc \in {"v_shown", "v_rendered"}
    /\ newStatus # status
    /\ status' = newStatus
    /\ LET date == Dates[today]
           first == Call(nCalls + 1, history, date,
                         "Status updated: " \o newStatus, "none")
           phso == IF Test(PhsoRe, StatusChars(newStatus))
                   THEN AutoCreate("phso", cases, nCalls + 2, history, date)
                   ELSE {}
           legal == IF Test(LegalRe, StatusChars(newStatus))
                    THEN AutoCreate("legal", cases, nCalls + 3, history, date)
                    ELSE {}
       IN  /\ Started({first} \cup phso \cup legal)
           /\ cases' = cases \cup (IF phso # {} THEN {"phso"} ELSE {})
                             \cup (IF legal # {} THEN {"legal"} ELSE {})
    /\ stored' = history
    /\ pc' = "v_verifying"
    /\ outcome' = Outcome("verify", "running", 1)
    /\ UNCHANGED <<history, auditOk>>
    /\ ViewFrame

\* the digest of an appendHistory call resolves: its entry is pushed
ViewDigestResolved(call) ==
    /\ call \in pending
    /\ history' = PushEntry(history,
                            Entry(call.date, call.event, sha256Hex(call.input)))
    /\ stored' = (IF call.then = "none" THEN stored ELSE history')
    /\ pending' = pending \ {call}
    /\ UNCHANGED <<nCalls, overlapped, pc, auditOk, status, cases, outcome>>
    /\ ViewFrame

\* the digest verifyHistoryChain awaits resolves: the entry is compared, and
\* `for (const h of hist)` goes on to the next entry that hist holds by now;
\* at the end, or at a mismatch, showComplaintDetails renders the indicator
VerifyDigestResolved ==
    /\ pc = "v_verifying"
    /\ LET i == outcome.digests
           h == history[i]
           prev == IF i = 1 THEN "" ELSE history[i - 1].hash
           expected == sha256Hex(HashInput(prev, h.date, h.event))
       IN  IF h.hash # expected
           THEN /\ auditOk' = FALSE
                /\ pc' = "v_rendered"
                /\ outcome' = Outcome("verify", "false", i)
           ELSE IF i < Len(history)
           THEN /\ outcome' = Outcome("verify", "running", i + 1)
                /\ UNCHANGED <<pc, auditOk>>
           ELSE /\ auditOk' = TRUE
                /\ pc' = "v_rendered"
                /\ outcome' = Outcome("verify", "true", i)
    /\ UNCHANGED <<history, stored, pending, nCalls, overlapped, status, cases>>
    /\ ViewFrame

NextView ==
    \/ \E st \in PromptStatuses : ViewStatusUpdate(st)
    \/ \E c \in pending : ViewDigestResolved(c)
    \/ VerifyDigestResolved

SpecView == InitView /\ [][NextView]_vars

-----------------------------------------------------------------------------
(* SpecPhso: two complaints, the escalation actions on them and application  *)
(* starts. Here memory gives for each complaint whether its status matches   *)
(* /phso/i and how many 'PHSO case created' entries its history holds, cases *)
(* is Data.phsoCases, ls is what Data.save() last wrote, pending holds the   *)
(* suspended calls (an escalation handler at `await appendHistory(...)`, or  *)
(* autoCreatePhsoCase at its own), and nCalls counts the escalation clicks.  *)

\* most escalation clicks
MaxEscalations == 3

PhsoComplaints == {"cmp_001", "cmp_002"}

\* the order of Data.complaints
PhsoOrder == <<"cmp_001", "cmp_002">>

\* the check left out: no complaint is taken to have a case
HasCaseNever(cs, c) == FALSE

\* Data.phsoCases.find(p => p.complaintId === complaint.id)
HasCase(cs, c) == \E i \in 1..Len(cs) : cs[i].complaintId = c

\* Data.nextPhsoId(), as a number
NextPhsoId(cs) ==
    1 + (IF cs = <<>> THEN 0
         ELSE CHOOSE n \in {cs[i].id : i \in 1..Len(cs)} :
                \A i \in 1..Len(cs) : cs[i].id <= n)

\* autoCreatePhsoCase(complaint) up to its await: Data.phsoCases after it
PhsoPushed(cs, c) ==
    IF HasCase(cs, c) THEN cs
    ELSE Append(cs, [id |-> NextPhsoId(cs), complaintId |-> c])

\* the appendHistory call autoCreatePhsoCase is suspended at, if it made one
PhsoCall(cs, c, then) ==
    IF HasCase(cs, c) THEN {} ELSE {[c |-> c, kind |-> "auto", then |-> then]}

\* main(), the loop over Data.complaints from the i-th on, up to the first
\* await: the complaints whose status does not match, or that have a case,
\* are passed
RECURSIVE MainLoop(_, _, _)
MainLoop(complaints, cs, i) ==
    IF i > Len(PhsoOrder) THEN [cases |-> cs, pending |-> {}, pc |-> "p_ready"]
    ELSE IF complaints[PhsoOrder[i]].phso /\ ~HasCase(cs, PhsoOrder[i])
    THEN [cases |-> PhsoPushed(cs, PhsoOrder[i]),
          pending |-> PhsoCall(cs, PhsoOrder[i], i),
          pc |-> "p_main"]
    ELSE MainLoop(complaints, cs, i + 1)

InitPhso ==
    /\ history = <<>>
    /\ stored = <<>>
    /\ pending = {}
    /\ today = 1
    /\ nCalls = 0
    /\ overlapped = FALSE
    /\ pc = "p_ready"
    /\ lastPush = NoPush
    /\ tamper = NoTamper
    /\ auditOk = FALSE
    /\ RedactIdle
    /\ MaskIdle
    /\ CallsIdle
    /\ status = ""
    /\ concerns = 0
    /\ session = "public"
    /\ created = 0
    /\ acc = {}
    /\ lsacc = <<>>
    /\ memory = [c \in PhsoComplaints |-> [phso |-> FALSE, entries |-> 0]]
    /\ cases = <<>>
    /\ ls = [complaints |-> memory, phso |-> cases]

PhsoFrame ==
    /\ UNCHANGED <<history, stored, today, overlapped, lastPush, tamper, auditOk>>
    /\ UNCHANGED <<status, concerns, session, created, acc, lsacc>>
    /\ UNCHANGED <<redactVars, maskVars, callVars>>

\* the page is loaded again: Data.init reads what was saved, what was
\* suspended is gone, and main() runs its loop to the first await
PhsoPageLoad ==
    /\ LET run == MainLoop(ls.complaints, ls.phso, 1)
       IN  /\ cases' = run.cases
           /\ pending' = run.pending
           /\ pc' = run.pc
    /\ memory' = ls.complaints
    /\ UNCHANGED <<ls, nCalls>>
    /\ PhsoFrame

\* editBtn with a status that matches /phso/i, and Action Required 'Send to
\* PHSO': the status is set, the complaint is saved, autoCreatePhsoCase runs
\* to its await
EscalateNow(c) ==
    /\ pc = "p_ready"
    /\ nCalls < MaxEscalations
    /\ nCalls' = nCalls + 1
    /\ memory' = [memory EXCEPT ![c].phso = TRUE]
    /\ ls' = [complaints |-> memory', phso |-> cases]
    /\ cases' = PhsoPushed(cases, c)
    /\ pending' = pending \cup PhsoCall(cases, c, 0)
    /\ UNCHANGED pc
    /\ PhsoFrame

\* escalatePhsoBtn and closurePhso, up to `await appendHistory(...)`
EscalateAwaiting(c) ==
    /\ pc = "p_ready"
    /\ nCalls < MaxEscalations
    /\ nCalls' = nCalls + 1
    /\ memory' = [memory EXCEPT ![c].phso = TRUE]
    /\ pending' = pending \cup {[c |-> c, kind |-> "handler", then |-> 0]}
    /\ UNCHANGED <<cases, ls, pc>>
    /\ PhsoFrame

\* the digest the handler awaited resolves: Data.upsertComplaint(complaint),
\* then autoCreatePhsoCase(complaint) up to its await
HandlerResumed(call) ==
    /\ call \in pending
    /\ call.kind = "handler"
    /\ ls' = [complaints |-> memory, phso |-> cases]
    /\ cases' = PhsoPushed(cases, call.c)
    /\ pending' = (pending \ {call}) \cup PhsoCall(cases, call.c, 0)
    /\ UNCHANGED <<memory, pc, nCalls>>
    /\ PhsoFrame

\* the digest autoCreatePhsoCase awaited resolves: the 'PHSO case created'
\* entry is pushed, Data.upsertComplaint(complaint), Data.save(); main()
\* goes on with its loop
PhsoCaseRecorded(call) ==
    /\ call \in pending
    /\ call.kind = "auto"
    /\ memory' = [memory EXCEPT ![call.c].entries = @ + 1]
    /\ IF call.then = 0
       THEN /\ cases' = cases
            /\ pending' = pending \ {call}
            /\ pc' = pc
       ELSE LET run == MainLoop(memory', cases, call.then + 1)
            IN  /\ cases' = run.cases
                /\ pending' = run.pending
                /\ pc' = run.pc
    /\ ls' = [complaints |-> memory', phso |-> cases]
    /\ UNCHANGED nCalls
    /\ PhsoFrame

NextPhso ==
    \/ PhsoPageLoad
    \/ \E c \in PhsoComplaints : EscalateNow(c)
    \/ \E c \in PhsoComplaints : EscalateAwaiting(c)
    \/ \E call \in pending : HandlerResumed(call)
    \/ \E call \in pending : PhsoCaseRecorded(call)

SpecPhso == InitPhso /\ [][NextPhso]_vars

-----------------------------------------------------------------------------
(* SpecControls: the Redaction Controls of one complaint. The dialog is    *)
(* opened on the complaint, the user clicks checkboxes, and the dialog is  *)
(* closed or saved; after a save the complaint is redacted. An attachment  *)
(* key is the text `${complaintId}/concerns/${concernId}/${file.name}` of  *)
(* saveFilesForConcern, held as a sequence of characters. rpc is           *)
(* "d_closed", "d_open", "d_saved" or "d_redacted"; after the save, dialog *)
(* holds the checkboxes as they were when Save Overrides was clicked.      *)

\* file.name of the files the user attaches
PlainName == <<"a">>
QuotedName == <<"a", "\"", "b">>
OtherName == <<"b">>

\* `${complaintId}/concerns/${concernId}/` for the i-th concern
KeyPath(i) ==
    <<"c", "m", "p", "_", "0", "0", "1", "/", "c", "o", "n", "c", "e", "r",
      "n", "s", "/", "c", "o", "n", "c", "_", "0", "0">>
    \o <<ToString(i)>> \o <<"/">>

\* the key saveFilesForConcern gives the file
ConcernKey(i, name) == KeyPath(i) \o name

\* a key of another complaint, left in safeAttachments by an import
StrayKey == <<"c", "m", "p", "_", "0", "0", "9", "/", "z">>

\* the files of the concerns, by concern; further concerns have none
FileChoices ==
    {<<<<PlainName>>, <<OtherName>>>>,
     <<<<PlainName, QuotedName>>, <<>>>>,
     <<<<QuotedName, OtherName>>, <<PlainName>>>>,
     <<<<>>, <<>>>>}

FilesOf(files, i) == IF i \in DOMAIN files THEN files[i] ELSE <<>>

\* complaint.redactOverrides.safeAttachments before the dialog is opened
SafeKeyChoices ==
    {[has |-> FALSE, keys |-> <<>>],
     [has |-> TRUE, keys |-> <<>>],
     [has |-> TRUE, keys |-> <<ConcernKey(1, PlainName)>>],
     [has |-> TRUE, keys |-> <<StrayKey, ConcernKey(1, QuotedName),
                              ConcernKey(2, PlainName)>>]}

\* complaint.redactOverrides before the dialog is opened
ControlOverrides ==
    {[has |-> TRUE, off |-> {}, on |-> {}],
     [has |-> TRUE, off |-> {"title", "status"}, on |-> {"complaintContent"}]}

ControlCov ==
    {[i |-> 0, off |-> {}, on |-> {}],
     [i |-> 1, off |-> {"summary", "notesText"}, on |-> {}]}

ControlShapes ==
    [ov : {[has |-> FALSE, off |-> {}, on |-> {}]},
     safe : {[has |-> FALSE, keys |-> <<>>]},
     cov : {[i |-> 0, off |-> {}, on |-> {}]},
     n : 1..MaxConcerns, files : FileChoices]
    \cup [ov : ControlOverrides, safe : SafeKeyChoices, cov : ControlCov,
          n : 1..MaxConcerns, files : FileChoices]

\* the heap that holds the complaint built from in
ControlsHeap(in) ==
    LET h0 == BuildComplaint({}, in.ov, [has |-> FALSE, keys |-> <<>>],
                             in.cov, in.n)
        Keys(i) == [j \in 1..Len(FilesOf(in.files, i)) |->
                       Txt(ConcernKey(i, FilesOf(in.files, i)[j]))]
        h1 == [a \in DOMAIN h0 |->
                 IF \E i \in 1..in.n : a = ConcernBase(i) + 9
                 THEN Keys((a - 19) \div 10)
                 ELSE h0[a]]
    IN  IF in.safe.has
        THEN Alloc(SetField(h1, 4, "safeAttachments", Arr(5)), 5,
                   [j \in 1..Len(in.safe.keys) |-> Txt(in.safe.keys[j])])
        ELSE h1

\* (complaint.concerns||[]).flatMap(c => (c.attachments||[])), from the
\* i-th concern on
RECURSIVE OfferedFrom(_, _, _)
OfferedFrom(h, cs, i) ==
    IF i > Len(cs) THEN <<>>
    ELSE Elems(h, GetField(h, cs[i].v, "attachments"))
         \o OfferedFrom(h, cs, i + 1)

Offered(h, complaint) ==
    OfferedFrom(h, Elems(h, GetField(h, complaint, "concerns")), 1)

\* what getAttribute('data-key') returns for the markup
\* `<input type="checkbox" data-key="${key}" .../>`: the attribute value
\* ends at the first double quote of the text written into it
DataKey(key) ==
    LET quotes == {j \in 1..Len(key.v) : key.v[j] = "\""}
    IN  IF quotes = {} THEN key
        ELSE Txt(SubSeq(key.v, 1,
                        (CHOOSE j \in quotes : \A k \in quotes : j <= k) - 1))

\* the checkboxes openRedactionControlsModal(complaint) renders
Rendered(h, complaint) ==
    LET keys == Offered(h, complaint)
    IN  [title |-> ~IsFalse(Override(h, complaint, "title")),
         content |-> ~IsFalse(Override(h, complaint, "complaintContent")),
         instEmail |-> ~IsFalse(Override(h, complaint, "institutionEmail")),
         boxes |-> [j \in 1..Len(keys) |->
                      [key |-> DataKey(keys[j]),
                       checked |-> IsSafeAttachment(h, complaint, keys[j])]]]

Checked(box) == box.checked

\* the click handler of #redactSave, up to complaint.redactOverrides = next
SaveOverrides(h, complaint, d) ==
    LET ov == GetField(h, complaint, "redactOverrides")
        fresh == MaxAddr(h) + 1
        next == IF Truthy(ov) THEN ov.v ELSE fresh
        h1 == IF Truthy(ov) THEN h ELSE Alloc(h, fresh, <<>>)
        ticked == SelectSeq(d.boxes, Checked)
        keys == [j \in 1..Len(ticked) |-> ticked[j].key]
        h2 == SetField(SetField(SetField(h1, next, "title", Flag(d.title)),
                                next, "complaintContent", Flag(d.content)),
                       next, "institutionEmail", Flag(d.instEmail))
    IN  SetField(SetField(Alloc(h2, fresh + 1, keys),
                          next, "safeAttachments", Arr(fresh + 1)),
                 complaint, "redactOverrides", Obj(next))

InitControls ==
    /\ ChainIdle
    /\ ExtIdle
    /\ shape \in ControlShapes
    /\ heap = ControlsHeap(shape)
    /\ result = 0
    /\ rpc = "d_closed"
    /\ dialog = NoDialog

ControlsFrame == UNCHANGED <<chainVars, extVars>>

\* a click on #redactControlsBtn
OpenControls ==
    /\ rpc = "d_closed"
    /\ dialog' = Rendered(heap, RootAddr)
    /\ rpc' = "d_open"
    /\ UNCHANGED <<heap, shape, result>>
    /\ ControlsFrame

\* the user clicks one of #ovTitle, #ovContent, #ovInstEmail
ToggleFlag ==
    /\ rpc = "d_open"
    /\ \E box \in {"title", "content", "instEmail"} :
          dialog' = [dialog EXCEPT ![box] = ~@]
    /\ UNCHANGED <<heap, shape, result, rpc>>
    /\ ControlsFrame

\* the user clicks the checkbox of an attachment
ToggleFile ==
    /\ rpc = "d_open"
    /\ \E j \in 1..Len(dialog.boxes) :
          dialog' = [dialog EXCEPT !.boxes[j].checked = ~@]
    /\ UNCHANGED <<heap, shape, result, rpc>>
    /\ ControlsFrame

\* a click on #redactClose or on the backdrop
CloseControls ==
    /\ rpc = "d_open"
    /\ dialog' = NoDialog
    /\ rpc' = "d_closed"
    /\ UNCHANGED <<heap, shape, result>>
    /\ ControlsFrame

\* a click on #redactSave. Data.upsertComplaint(complaint) puts the same
\* object where it is in Data.complaints
SaveControls ==
    /\ rpc = "d_open"
    /\ heap' = SaveOverrides(heap, RootAddr, dialog)
    /\ rpc' = "d_saved"
    /\ UNCHANGED <<shape, result, dialog>>
    /\ ControlsFrame

\* redactComplaintDeep(complaint) of the saved complaint
RedactSaved ==
    /\ rpc = "d_saved"
    /\ LET r == redactComplaintDeep(heap, RootAddr)
       IN  /\ heap' = r.heap
           /\ result' = r.root
    /\ rpc' = "d_redacted"
    /\ UNCHANGED <<shape, dialog>>
    /\ ControlsFrame

NextControls ==
    \/ OpenControls
    \/ ToggleFlag
    \/ ToggleFile
    \/ CloseControls
    \/ SaveControls
    \/ RedactSaved

SpecControls == InitControls /\ [][NextControls]_vars

-----------------------------------------------------------------------------
(* SpecForm: the add-complaint form is submitted, also again while an        *)
(* earlier submission is suspended at one of its awaits. Here memory holds   *)
(* each complaint of Data.complaints as its id number and the submission     *)
(* that made it (0 for a complaint that was loaded), and pending holds the   *)
(* suspended submit handlers.                                                *)

\* most submissions of the form
MaxSubmits == 3

FormComplaint(id, sub) == [id |-> id, sub |-> sub]

\* Data.complaints when the form is first submitted
FormStarts ==
    {{}, {FormComplaint(1, 0)}, {FormComplaint(1, 0), FormComplaint(2, 0)},
     {FormComplaint(3, 0)}}

\* Data.nextComplaintId(): 1 + the largest number in the ids of
\* Data.complaints
NextComplaintId(complaints) ==
    LET Max(a, b) == IF a >= b THEN a ELSE b
        nums == {c.id : c \in complaints}
    IN  1 + (IF nums = {} THEN 0
             ELSE CHOOSE n \in nums : \A m \in nums : Max(n, m) = n)

\* Data.upsertComplaint(newComplaint), without the save
UpsertComplaint(complaints, new) ==
    {c \in complaints : c.id # new.id} \cup {new}

InitForm ==
    /\ ChainIdle
    /\ RedactIdle
    /\ MaskIdle
    /\ UiIdle
    /\ CallsIdle
    /\ session = "public"
    /\ memory \in FormStarts
    /\ ls = <<>>
    /\ created = 0
    /\ acc = {}
    /\ lsacc = <<>>

FormFrame ==
    /\ UNCHANGED <<history, stored, today, nCalls, overlapped, pc, lastPush,
                   tamper, auditOk>>
    /\ UNCHANGED <<session, ls, acc, lsacc>>
    /\ UNCHANGED <<redactVars, maskVars, uiVars, callVars>>

\* the submit handler up to `await Data.saveFilesForComplaint(...)`:
\* localId = Data.nextComplaintId() is taken here
SubmitForm ==
    /\ created < MaxSubmits
    /\ created' = created + 1
    /\ pending' = pending \cup
          {[sub |-> created + 1,
            id |-> NextComplaintId(memory),
            at |-> "files"]}
    /\ UNCHANGED memory
    /\ FormFrame

\* the files are stored: the handler goes on to `await appendHistory(...)`
FilesSaved(call) ==
    /\ call \in pending
    /\ call.at = "files"
    /\ pending' = (pending \ {call}) \cup {[call EXCEPT !.at = "digest"]}
    /\ UNCHANGED <<memory, created>>
    /\ FormFrame

\* the digest has resolved: Data.upsertComplaint(complaint)
ComplaintUpserted(call) ==
    /\ call \in pending
    /\ call.at = "digest"
    /\ memory' = UpsertComplaint(memory, FormComplaint(call.id, call.sub))
    /\ pending' = pending \ {call}
    /\ UNCHANGED created
    /\ FormFrame

NextForm ==
    \/ SubmitForm
    \/ \E c \in pending : FilesSaved(c)
    \/ \E c \in pending : ComplaintUpserted(c)

SpecForm == InitForm /\ [][NextForm]_vars

-----------------------------------------------------------------------------
(* Claims *)

\* the run started from an empty history and no two appendHistory calls
\* were ever in flight together, and none is in flight now
SequentialFromEmpty ==
    /\ pc = "ready"
    /\ stored = <<>>
    /\ ~overlapped
    /\ pending = {}

\* C1: starting from an empty history, after any number of appendHistory
\* calls, each awaited before the next starts, verifyHistoryChain returns
\* true on the resulting history (which holds one entry per call).
C1_ChainValid ==
    SequentialFromEmpty =>
        /\ verifyHistoryChain(history)
        /\ Len(history) = nCalls

C1_Witness ==
    /\ SequentialFromEmpty
    /\ Len(history) >= 3
    /\ history[1].date # history[3].date
    /\ history[1].event # history[2].event
    /\ verifyHistoryChain(history)

\* the stored history verified before it was edited, and has been shown after
ShownAfter(kinds) ==
    /\ pc = "t_verified"
    /\ tamper.kind \in kinds
    /\ verifyHistoryChain(stored)

\* C2: in a history that verifies, changing the event or the date of one
\* entry to a different value, with no hash recomputed, makes
\* verifyHistoryChain return false.
C2_EditDetected == ShownAfter({"event", "date"}) => auditOk = FALSE

C2_Witness ==
    /\ ShownAfter({"date"})
    /\ Len(stored) = 2
    /\ tamper.idx = 1
    /\ history[1].date = "2025-01-10|a"
    /\ auditOk = FALSE

\* C3: in a history of two or more entries that verifies, swapping two
\* adjacent entries, each keeping its hash, makes verifyHistoryChain return
\* false.
C3_SwapDetected == ShownAfter({"swap"}) => auditOk = FALSE

C3_Witness ==
    /\ ShownAfter({"swap"})
    /\ Len(stored) >= 2
    /\ stored[1].date = stored[2].date
    /\ stored[1].event = stored[2].event
    /\ history[1] = stored[2]
    /\ auditOk = FALSE

C5_HashFromLastAtPush ==
    lastPush.n > 0 =>
        history[Len(history)].hash =
            sha256Hex(HashInput(PrevHash(lastPush.before),
                                lastPush.date, lastPush.event))

\* C6: a completed appendHistory call lengthens the history by exactly one,
\* its entry is last, and every earlier entry keeps its position, date,
\* event and hash.
C6_AppendOnly ==
    lastPush.n > 0 =>
        /\ Len(history) = Len(lastPush.before) + 1
        /\ SubSeq(history, 1, Len(lastPush.before)) = lastPush.before
        /\ history[Len(history)].date = lastPush.date
        /\ history[Len(history)].event = lastPush.event

C6_Witness ==
    /\ lastPush.n > 0
    /\ Len(lastPush.before) >= 2
    /\ overlapped
    /\ history[Len(history)].event # history[1].event

Original == ComplaintHeap(shape)

\* C8: after redactComplaintDeep every object and array of the original
\* complaint (concerns, notes, responses, attachments, redactOverrides and
\* history included) holds what it held before, no object or array that can
\* be reached from the result is one of the original, and this stays so when
\* the caller changes everything it can reach from the result.
C8_InputUntouchedResultFresh ==
    rpc \in {"redacted", "written"} =>
        /\ \A a \in DOMAIN Original : heap[a] = Original[a]
        /\ Reach(heap, result) \cap DOMAIN Original = {}

C8_Witness ==
    /\ rpc = "written"
    /\ shape.n >= 2
    /\ shape.ov.has
    /\ shape.cov.i > 0
    /\ heap[result]["title"] = Str("changed")
    /\ heap[RootAddr]["title"] = Txt(SampleText("title"))

SeqRange(s) == {s[j] : j \in 1..Len(s)}

\* the keys in the attachments array of the object at a
KeysAt(h, a) == {v.v : v \in SeqRange(Elems(h, GetField(h, a, "attachments")))}

\* the objects in the array that property key of the object at a holds
ObjectsAt(h, a, key) == {v.v : v \in SeqRange(Elems(h, GetField(h, a, key)))}

\* the attachment references of a complaint: its own, those of its concerns
\* and those of the responses of its concerns
AttachmentRefs(h, root) ==
    KeysAt(h, root)
    \cup UNION {KeysAt(h, c) : c \in ObjectsAt(h, root, "concerns")}
    \cup UNION {UNION {KeysAt(h, r) : r \in ObjectsAt(h, c, "responses")} :
                c \in ObjectsAt(h, root, "concerns")}

\* C9: the attachment references of the copy that redactComplaintDeep
\* returns (of the complaint, of its concerns and of their responses) are
\* exactly those of the original whose key is in redactOverrides.safeAttachments;
\* without a safe list, or with an empty one, there is none.
C9_AttachmentsDefaultDeny ==
    rpc = "redacted" =>
        AttachmentRefs(heap, result) =
            {key \in AttachmentRefs(Original, RootAddr) :
                IsSafeAttachment(Original, RootAddr, Str(key))}

\* C10: in the copy that redactComplaintDeep returns, a root field of the
\* allow-list whose override flag is false, or that is empty, is as in the
\* original, and every other one is maskText of its original value; so with
\* only title set to false the title is unmasked and the rest is masked.
C10_RootFieldMaskedUnlessFlagFalse ==
    rpc = "redacted" =>
        \A key \in rootKeys :
            LET before == GetField(Original, RootAddr, key)
                after == GetField(heap, result, key)
            IN  IF IsFalse(Override(Original, RootAddr, key)) \/ ~Truthy(before)
                THEN after = before
                ELSE after = Txt(MaskString(before.v))

C10_Witness ==
    /\ rpc = "redacted"
    /\ shape.ov.has
    /\ shape.ov.off = {"title"}
    /\ shape.ov.on = {}
    /\ shape.absent = {}
    /\ MaskString(SampleText("title")) = RedactedId
    /\ GetField(heap, result, "title") = Txt(SampleText("title"))
    /\ GetField(heap, result, "complaintContent") = Txt(RedactedEmail)
    /\ GetField(heap, result, "institutionEmail") = Txt(RedactedEmail)
    /\ GetField(heap, result, "contactPerson") = Txt(RedactedId)
    /\ GetField(heap, result, "passwordHint") = Txt(RedactedId)
    /\ GetField(heap, result, "agreedTerms") = Txt(RedactedPhone)
    /\ GetField(heap, result, "institution") = Txt(SampleText("institution"))

\* C11: for a text made only of the placeholder tokens and separators,
\* maskText returns the text unchanged, the first time and when it is called
\* again on what it returned.
C11_PlaceholdersUnchanged ==
    mtext \in PlaceholderTexts =>
        \A i \in 1..Len(mouts) : mouts[i] = Txt(mtext)

C11_Witness ==
    /\ Len(mouts) = 2
    /\ mtext = RedactedEmail \o <<",", " ">> \o RedactedId
    /\ mouts[2] = Txt(mtext)

\* C12: no namespace of localStorage holds a complaint that was created
\* under another namespace (a user's, admin's or 'public').
C12_NoForeignComplaintStored ==
    \A ns \in Namespaces :
        \A c \in ls[ns].items : c.owner \in Namespaces => c.owner = ns

\* C13: no two appendHistory calls on the complaint are in flight at once.
C13_AppendsSerialised == Cardinality(pending) <= 1

\* all asynchronous work on the complaint shown has completed
UiQuiet == pc = "ui_shown" /\ pending = {}

\* C14: for a complaint created through the add form, after any sequence of
\* user actions on it, once all pending work has completed,
\* verifyHistoryChain returns true.
C14_ChainValidWhenQuiet == UiQuiet => verifyHistoryChain(history)

\* C15: once the handlers and the appends they started have finished, the
\* complaint saved in localStorage holds every appended history entry.
C15_SavedWithEntry == UiQuiet => stored = history

\* the i-th entry's stored hash is the digest of the hash stored in the entry
\* before it (the empty string for the first), its date and its event
MatchesAt(hist, i) ==
    /\ hist[i] # NullEntry
    /\ hist[i].hash =
          sha256Hex(HashInput(IF i = 1 THEN "" ELSE hist[i - 1].hash,
                              hist[i].date, hist[i].event))

\* the index of the first entry that does not match, or Len(hist) + 1
FirstBad(hist) ==
    IF \E i \in 1..Len(hist) : ~MatchesAt(hist, i)
    THEN CHOOSE i \in 1..Len(hist) :
            /\ ~MatchesAt(hist, i)
            /\ \A j \in 1..(i - 1) : MatchesAt(hist, j)
    ELSE Len(hist) + 1

C17_VerifyLeavesHistory ==
    (pc = "c_done" /\ outcome.op = "verify") => history = stored

C17_Witness ==
    /\ pc = "c_done"
    /\ outcome = Outcome("verify", "false", 2)
    /\ Len(history) = 2
    /\ history[2].hash = NoHash
    /\ history = stored
    /\ Backfill(history) # history

\* C18: when the digest fails in appendHistory, in verifyHistoryChain or in
\* the backfill, the call throws to its caller after the one failed digest
\* and leaves the history as it was.
C18_DigestFailurePropagates ==
    (pc = "c_done" /\ ~digestWorks /\ outcome.digests > 0) =>
        /\ outcome.result = "throws"
        /\ outcome.digests = 1
        /\ history = stored

\* the number of concerns the original complaint holds
NConcerns == Len(Elems(Original, GetField(Original, RootAddr, "concerns")))

\* the address, in the result, of the copy of the i-th concern
ResultConcern(i) == Elems(heap, GetField(heap, result, "concerns"))[i].v

\* redactOverrides.concerns[<id of the i-th concern>][key] of the original
OriginalFlag(i, key) ==
    LET idv == GetField(Original, ConcernBase(i), "id")
    IN  ConcernOverride(Original, RootAddr,
                        IF idv.k = "str" THEN idv.v ELSE "", key)

\* C19: in the result of redactComplaintDeep each of summary, details,
\* decisionMaker and response of a concern is what the original held when
\* redactOverrides.concerns[<that concern's id>][<that field>] is false, and
\* maskText of it otherwise (also when the flag is true; a field that is
\* absent or empty stays as it is); every concern
\* whose id is not the one the overrides name has all four fields masked.
C19_ConcernFieldMaskedUnlessOwnFlagFalse ==
    rpc = "redacted" =>
        \A i \in 1..NConcerns : \A key \in concernKeys :
            LET before == GetField(Original, ConcernBase(i), key)
                after == GetField(heap, ResultConcern(i), key)
            IN  /\ after = IF IsFalse(OriginalFlag(i, key)) \/ ~Truthy(before)
                           THEN before ELSE maskText(before)
                /\ (i # shape.cov.i /\ Truthy(before))
                      => after = maskText(before)

C19_Witness ==
    /\ rpc = "redacted"
    /\ shape.n = 2
    /\ shape.cov.i = 1
    /\ shape.cov.off = {"summary"}
    /\ GetField(heap, ResultConcern(1), "summary") = Txt(SampleText("summary"))
    /\ GetField(heap, ResultConcern(2), "summary") = Txt(RedactedId)
    /\ GetField(heap, ResultConcern(1), "details") = Txt(RedactedEmail)

\* C20: in the result of redactComplaintDeep the evidence of every concern
\* holds maskText of each evidence string of the original, in the same
\* order, whatever flags redactOverrides and redactOverrides.concerns hold
\* (a flag named evidence included).
C20_EvidenceAlwaysMasked ==
    rpc = "redacted" =>
        \A i \in 1..NConcerns :
            LET before == Elems(Original,
                                GetField(Original, ConcernBase(i), "evidence"))
                after == Elems(heap,
                               GetField(heap, ResultConcern(i), "evidence"))
            IN  /\ Len(after) = Len(before)
                /\ \A j \in 1..Len(before) :
                      /\ after[j] = maskText(before[j])
                      /\ after[j] # before[j]

C20_Witness ==
    /\ rpc = "redacted"
    /\ shape.n = 2
    /\ shape.ov.off = {"evidence"}
    /\ shape.cov.i = 1
    /\ "evidence" \in shape.cov.off
    /\ IsFalse(OriginalFlag(1, "evidence"))
    /\ IsFalse(Override(Original, RootAddr, "evidence"))
    /\ Elems(heap, GetField(heap, ResultConcern(1), "evidence"))
          = <<Txt(<<"h", ".", "i", "o", "/">> \o RedactedId)>>

\* the objects of the array that field key of the object at a holds, in heap h
ObjectsOf(h, a, key) == Elems(h, GetField(h, a, key))

\* field key of the j-th object of the array list of the i-th concern: Before
\* in the original complaint, After in the result
Before(i, list, j, key) ==
    GetField(Original, ObjectsOf(Original, ConcernBase(i), list)[j].v, key)

After(i, list, j, key) ==
    GetField(heap, ObjectsOf(heap, ResultConcern(i), list)[j].v, key)

\* the text at key holds maskText of the original unless flag is false for
\* the i-th concern, and then it holds the original
TextFollows(i, list, j, key, flag) ==
    After(i, list, j, key) =
        IF IsFalse(OriginalFlag(i, flag)) THEN Before(i, list, j, key)
        ELSE maskText(Before(i, list, j, key))

\* the same for each string of the array at urls
UrlsFollow(i, list, j, flag) ==
    LET before == Elems(Original, Before(i, list, j, "urls"))
        after == Elems(heap, After(i, list, j, "urls"))
    IN  /\ Len(after) = Len(before)
        /\ \A u \in 1..Len(before) :
              after[u] = IF IsFalse(OriginalFlag(i, flag)) THEN before[u]
                         ELSE maskText(before[u])

\* C21: in the result of redactComplaintDeep the text and every url of every
\* note, and the decision maker, the text and every url of every response,
\* hold maskText of the original, except the part whose own flag of the
\* concern (notesText, notesUrls, responsesDecision, responsesText,
\* responsesUrls) is false, which holds the original.
C21_NotesAndResponsesMaskedByOwnFlag ==
    rpc = "redacted" =>
        \A i \in 1..NConcerns :
            /\ \A j \in 1..Len(ObjectsOf(Original, ConcernBase(i), "notes")) :
                  /\ TextFollows(i, "notes", j, "text", "notesText")
                  /\ UrlsFollow(i, "notes", j, "notesUrls")
            /\ \A j \in 1..Len(ObjectsOf(Original, ConcernBase(i), "responses")) :
                  /\ TextFollows(i, "responses", j, "decisionMaker",
                                 "responsesDecision")
                  /\ TextFollows(i, "responses", j, "text", "responsesText")
                  /\ UrlsFollow(i, "responses", j, "responsesUrls")

C21_Witness ==
    /\ rpc = "redacted"
    /\ shape.n = 2
    /\ shape.cov = [i |-> 1, off |-> {"notesText"}, on |-> {}]
    /\ After(1, "notes", 1, "text") = Txt(SampleText("text"))
    /\ After(1, "notes", 1, "text") # maskText(Txt(SampleText("text")))
    /\ Elems(heap, After(1, "notes", 1, "urls"))
          = <<Txt(<<"h", ".", "i", "o", "/">> \o RedactedId)>>
    /\ After(1, "responses", 1, "text") = maskText(Txt(SampleText("text")))
    /\ After(2, "notes", 1, "text") = maskText(Txt(SampleText("text")))

\* v is an array that holds nothing
EmptyList(h, v) == v.k = "arr" /\ h[v.v] = <<>>

\* the key that is absent in the original object at a is absent in its copy
\* at b
StaysAbsent(a, b, key) ==
    GetField(Original, a, key) = Undef => GetField(heap, b, key) = Undef

\* the list that is absent or empty in the original object at a is an empty
\* list in its copy at b
ComesBackEmpty(a, b, key) ==
    Elems(Original, GetField(Original, a, key)) = <<>>
        => EmptyList(heap, GetField(heap, b, key))

\* the text of a note or response that is absent in the original is the
\* empty string in the copy, or absent when its flag is false
TextComesBackEmpty(i, list, j, key, flag) ==
    Before(i, list, j, key) = Undef =>
        After(i, list, j, key) =
            IF IsFalse(OriginalFlag(i, flag)) THEN Undef ELSE Txt(<<>>)

\* the urls of a note or response that are absent or empty in the original
\* are an empty list in the copy
UrlsComeBackEmpty(i, list, j) ==
    Elems(Original, Before(i, list, j, "urls")) = <<>>
        => EmptyList(heap, After(i, list, j, "urls"))

\* C22 as stated: every maskable field, list or urls that the original
\* complaint, a concern, a note or a response lacks is lacking in the copy
\* redactComplaintDeep returns.
C22_AbsentStaysAbsent ==
    rpc = "redacted" =>
        /\ \A key \in rootKeys \cup {"concerns", "redactOverrides"} :
              StaysAbsent(RootAddr, result, key)
        /\ \A i \in 1..NConcerns :
              /\ \A key \in concernKeys \cup {"evidence", "notes", "responses",
                                              "attachments"} :
                    StaysAbsent(ConcernBase(i), ResultConcern(i), key)
              /\ \A j \in 1..Len(ObjectsOf(Original, ConcernBase(i), "notes")) :
                    \A key \in {"text", "urls"} :
                        Before(i, "notes", j, key) = Undef
                            => After(i, "notes", j, key) = Undef
              /\ \A j \in 1..Len(ObjectsOf(Original, ConcernBase(i), "responses")) :
                    \A key \in {"decisionMaker", "text", "urls"} :
                        Before(i, "responses", j, key) = Undef
                            => After(i, "responses", j, key) = Undef

\* C22 amended: redactComplaintDeep returns a copy; a root field, the
\* concerns, redactOverrides, a concern's text field or a concern's
\* attachments that the original lacks is lacking in the copy; evidence,
\* notes and responses of a concern and the urls of a note or response that
\* are absent or empty are an empty list in the copy; the text or decision
\* maker that a note or response lacks is the empty string in the copy
\* (absent when its flag is false).
C22_AbsentSkippedOrEmptied ==
    rpc = "redacted" =>
        /\ result \in DOMAIN heap
        /\ \A key \in rootKeys \cup {"concerns", "redactOverrides"} :
              StaysAbsent(RootAddr, result, key)
        /\ \A i \in 1..NConcerns :
              /\ \A key \in concernKeys \cup {"attachments"} :
                    StaysAbsent(ConcernBase(i), ResultConcern(i), key)
              /\ \A key \in {"evidence", "notes", "responses"} :
                    ComesBackEmpty(ConcernBase(i), ResultConcern(i), key)
              /\ \A j \in 1..Len(ObjectsOf(Original, ConcernBase(i), "notes")) :
                    /\ TextComesBackEmpty(i, "notes", j, "text", "notesText")
                    /\ UrlsComeBackEmpty(i, "notes", j)
              /\ \A j \in 1..Len(ObjectsOf(Original, ConcernBase(i), "responses")) :
                    /\ TextComesBackEmpty(i, "responses", j, "decisionMaker",
                                          "responsesDecision")
                    /\ TextComesBackEmpty(i, "responses", j, "text",
                                          "responsesText")
                    /\ UrlsComeBackEmpty(i, "responses", j)

C22_Witness ==
    /\ rpc = "redacted"
    /\ shape.n = 2
    /\ ~shape.ov.has
    /\ shape.lack = {"evidence", "notes", "responses", "attachments"}
    /\ GetField(Original, ConcernBase(2), "evidence") = Undef
    /\ EmptyList(heap, GetField(heap, ResultConcern(2), "evidence"))
    /\ EmptyList(heap, GetField(heap, ResultConcern(2), "notes"))
    /\ GetField(heap, ResultConcern(2), "attachments") = Undef
    /\ GetField(heap, ResultConcern(2), "summary") = Txt(RedactedId)

\* C23: no namespace of localStorage holds a demo complaint or a demo
\* accountability entry of injectDemoData.
C23_DemoNeverStored ==
    \A ns \in Namespaces :
        /\ ls[ns].items \cap Demo = {}
        /\ lsacc[ns] \cap DemoAccountability = {}

\* C24: a step in which an appendHistory call pushes its entry onto a
\* history that verifyHistoryChain rejects (a last entry without a hash
\* included) leaves a history that verifyHistoryChain rejects.
C24_AppendNeverRepairs ==
    [][(/\ ~verifyHistoryChain(history)
        /\ pending' # pending
        /\ pending' \subseteq pending)
          => ~verifyHistoryChain(history')]_vars

C24_Witness ==
    /\ pc = "ready"
    /\ pending = {}
    /\ Len(stored) = 1
    /\ stored[1].hash = NoHash
    /\ Len(history) = 3
    /\ SubSeq(history, 1, 1) = stored
    /\ history[2].hash = sha256Hex(HashInput("", history[2].date, history[2].event))
    /\ history[3].hash = sha256Hex(HashInput(history[2].hash, history[3].date,
                                             history[3].event))
    /\ ~verifyHistoryChain(history)

\* the value v1 of heap h1 and the value v2 of heap h2 are equal: the same
\* text, key or boolean, or objects (arrays) that hold equal values
RECURSIVE SameValue(_, _, _, _)
SameValue(h1, v1, h2, v2) ==
    /\ v1.k = v2.k
    /\ IF IsRef(v1)
       THEN /\ DOMAIN h1[v1.v] = DOMAIN h2[v2.v]
            /\ \A x \in DOMAIN h1[v1.v] :
                  SameValue(h1, h1[v1.v][x], h2, h2[v2.v][x])
       ELSE v1.v = v2.v

\* the copy at b holds what the original object at a holds, at every key
\* but those of changed
SameBut(a, b, changed) ==
    /\ DOMAIN Original[a] \ changed = DOMAIN heap[b] \ changed
    /\ \A x \in DOMAIN Original[a] \ changed :
          SameValue(Original, Original[a][x], heap, heap[b][x])

\* C25: the copy redactComplaintDeep returns holds what the original holds
\* (id, dateFiled, the complaint's attachments, redactOverrides and every
\* history entry with its date, event and hash included) everywhere but at
\* the allow-listed root fields, the four text fields, evidence, notes,
\* responses and attachments of a concern, text and urls of a note, and
\* decisionMaker, text and urls of a response.
C25_OnlyListedPartsChange ==
    rpc = "redacted" =>
        /\ SameBut(RootAddr, result, rootKeys \cup {"concerns"})
        /\ Len(ObjectsOf(heap, result, "concerns")) = NConcerns
        /\ \A i \in 1..NConcerns :
              /\ SameBut(ConcernBase(i), ResultConcern(i),
                         concernKeys \cup {"evidence", "notes", "responses",
                                           "attachments"})
              /\ \A list \in {"notes", "responses"} :
                    /\ Len(ObjectsOf(heap, ResultConcern(i), list))
                          = Len(ObjectsOf(Original, ConcernBase(i), list))
                    /\ \A j \in 1..Len(ObjectsOf(Original, ConcernBase(i), list)) :
                          SameBut(ObjectsOf(Original, ConcernBase(i), list)[j].v,
                                  ObjectsOf(heap, ResultConcern(i), list)[j].v,
                                  {"decisionMaker", "text", "urls"})

C25_Witness ==
    /\ rpc = "redacted"
    /\ shape.n = 2
    /\ shape.ov.has
    /\ shape.absent = {}
    /\ GetField(heap, result, "title") = Txt(RedactedId)
    /\ GetField(heap, result, "dateFiled") = Txt(SampleText("dateFiled"))
    /\ maskText(Txt(SampleText("dateFiled"))) = Txt(RedactedPhone)
    /\ LET entry == ObjectsOf(heap, result, "history")[1].v
       IN  /\ entry \notin DOMAIN Original
           /\ GetField(heap, entry, "event") = Txt(SampleText("title"))
           /\ GetField(heap, entry, "hash") = GetField(Original, 8, "hash")

\* C26: the submissions of the add form that are under way and the
\* complaints in Data.complaints all have different ids, and every
\* submission that has finished has its complaint in Data.complaints.
C26_IdsUniqueBothPresent ==
    /\ \A p \in pending :
          /\ \A q \in pending : p.id = q.id => p = q
          /\ \A c \in memory : c.id # p.id
    /\ \A k \in 1..created :
          (\A p \in pending : p.sub # k) => \E c \in memory : c.sub = k

\* C27: when the detail view shows 'Audit Trail: Valid' and the
\* appendHistory calls of the handler that opened it have pushed their
\* entries, verifyHistoryChain accepts the history.
C27_ValidIndicatorOnValidHistory ==
    (pc = "v_rendered" /\ auditOk /\ pending = {})
        => verifyHistoryChain(history)

\* the cases of Data.phsoCases that name complaint c
CasesOf(c) == {i \in 1..Len(cases) : cases[i].complaintId = c}

\* C28: Data.phsoCases holds at most one case for a complaint, and the
\* 'PHSO case created' entries of a complaint's history, with those about to
\* be pushed, are no more than its cases: no call of autoCreatePhsoCase for
\* a complaint that has a case appends an entry.
C28_AtMostOnePhsoCase ==
    \A c \in PhsoComplaints :
        /\ Cardinality(CasesOf(c)) <= 1
        /\ memory[c].entries
              + Cardinality({p \in pending : p.kind = "auto" /\ p.c = c})
              <= Cardinality(CasesOf(c))
        /\ Len(ls.phso) <= Cardinality(PhsoComplaints)

C28_Witness ==
    /\ pc = "p_ready"
    /\ nCalls = 3
    /\ pending = {}
    /\ Len(cases) = 2
    /\ cases = ls.phso
    /\ memory["cmp_001"].entries = 1
    /\ memory["cmp_002"].entries = 1
    /\ cases[1].complaintId = "cmp_002"

\* C29: the history the load-time backfill leaves is one that a second run
\* of the backfill leaves as it is, and when verifyHistoryChain accepts the
\* stored history the backfill leaves every hash as it was stored.
C29_BackfillIdentityIdempotent ==
    pc = "backfilled" =>
        /\ Backfill(history) = history
        /\ verifyHistoryChain(stored) => history = stored

C29_Witness ==
    /\ pc = "backfilled"
    /\ Len(stored) = 2
    /\ stored[1].hash = StaleHash
    /\ stored[2].hash = sha256Hex(HashInput(StaleHash, stored[2].date,
                                            stored[2].event))
    /\ history[1].hash # StaleHash
    /\ history[2].hash # stored[2].hash
    /\ Backfill(history) = history

\* the complaint as it was before the Redaction Controls were opened
ControlsOriginal == ControlsHeap(shape)

\* the keys of the attachments whose checkbox was checked at the save
CheckedKeys ==
    LET keys == Offered(ControlsOriginal, RootAddr)
    IN  {keys[j] : j \in {k \in 1..Len(keys) : dialog.boxes[k].checked}}

\* C30: after Save Overrides, redactOverrides.safeAttachments holds exactly
\* the keys of the attachments whose checkbox was checked, the title,
\* complaintContent and institutionEmail flags are the states of their
\* checkboxes, every other override key is as it was, and the redacted copy
\* of the saved complaint keeps of each concern exactly the checked
\* attachments.
C30_SaveStoresCheckedKeys ==
    rpc \in {"d_saved", "d_redacted"} =>
        LET ov == GetField(heap, RootAddr, "redactOverrides")
            old == GetField(ControlsOriginal, RootAddr, "redactOverrides")
            written == {"title", "complaintContent", "institutionEmail",
                        "safeAttachments"}
        IN  /\ ov.k = "obj"
            /\ SeqRange(Elems(heap, GetField(heap, ov.v, "safeAttachments")))
                  = CheckedKeys
            /\ GetField(heap, ov.v, "title") = Flag(dialog.title)
            /\ GetField(heap, ov.v, "complaintContent") = Flag(dialog.content)
            /\ GetField(heap, ov.v, "institutionEmail")
                  = Flag(dialog.instEmail)
            /\ \A x \in (rootKeys \cup {"concerns", "evidence"}) \ written :
                  SameValue(ControlsOriginal,
                            IF old.k = "obj"
                            THEN GetField(ControlsOriginal, old.v, x)
                            ELSE Undef,
                            heap, GetField(heap, ov.v, x))
            /\ rpc = "d_redacted" =>
                  \A i \in 1..shape.n :
                      LET IsChecked(key) == key \in CheckedKeys
                      IN  ObjectsOf(heap,
                                    ObjectsOf(heap, result, "concerns")[i].v,
                                    "attachments")
                            = SelectSeq(ObjectsOf(ControlsOriginal,
                                                  ConcernBase(i),
                                                  "attachments"),
                                        IsChecked)

\* the same, for complaints whose attachment keys hold no double quote
PlainKeysStored ==
    (\A key \in SeqRange(Offered(ControlsOriginal, RootAddr)) :
        DataKey(key) = key)
    => C30_SaveStoresCheckedKeys

====
